---- MODULE Spec2Model ----
(***************************************************************************)
(* Model of the geometric trajectory engine of ffeimg (src/bin/ffe.py).    *)
(*                                                                         *)
(* The module holds one specification per function under study:            *)
(*   SpecCombine  combineTrajectories and its two similarity metrics       *)
(*   SpecPath     findPathOnImage (density image, Dijkstra, backtracking)  *)
(*   SpecZone     findSeparationZoneBoundaries                             *)
(*   SpecTracer   getTrajectoriesFromImage (gradient tracer)               *)
(*   SpecMetrics  the two similarity metrics and getSkinOfTrajectory       *)
(*   SpecQuery    getResolutionOfTrajectories and getYandWofTrajectory     *)
(*   SpecFlow     getInverseFlowDirection                                  *)
(*   SpecWidth    findWidthOfTrajectory                                    *)
(*   SpecStore    findtrajectories.py, from the channels to the file       *)
(*   SpecDijkstra getTrajectoriesFromImageDijkstra                         *)
(*   SpecMiddle   findMiddleOfConsecutiveNumbers                           *)
(*   SpecEndpointsfindEndpointsOfTrajectories                              *)
(*   SpecPng      the dfFe dictionary of a PNG file and pngdata.py del     *)
(* Every specification owns a group of variables and leaves the others     *)
(* at their idle value.                                                    *)
(***************************************************************************)
EXTENDS Integers, Sequences, FiniteSets, TLC

VARIABLES
    \* ---- combineTrajectories
    traclist1, traclist2,      \* the two input lists
    useHausdorff,              \* metric switch
    maxoverlap,                \* overlap threshold, in quarters (3 = 0.75)
    hausdorffbias,             \* Hausdorff threshold (pixels)
    workinglist, finallist,    \* the locals of the merge loop
    cpc,                       \* position in combineTrajectories
    cevent,                    \* what the last loop iteration did
    \* ---- findPathOnImage
    image,                     \* the 8bit image, pixel <<x, y>> |-> value
    startpoint, endpoint,      \* <<x, y>>
    bias, everyotherpoint, densityrad,
    densityimage,              \* pixel |-> density
    maxintensity,              \* densityimage.max()
    points,                    \* the passable pixels, in np.where order
    queue,                     \* the heap, a set of <<distance, x, y>>
    tracker,                   \* pixel |-> index into points, -1, or 0
    path,                      \* the list under construction / returned
    current, n,                \* locals of the backtracking loop
    ppc,                       \* position in findPathOnImage
    \* ---- findSeparationZoneBoundaries
    contours,                  \* the contours, each by its area
    hierarchy,                 \* hierarchy[0]
    threshold, threshratio, variance,
    zi, zj,                    \* loop indices i and j
    zresult,                   \* the pair returned
    zpc,                       \* position in findSeparationZoneBoundaries
    \* ---- getTrajectoriesFromImage
    timage,                    \* the image
    startpoints, endpoints, flow,
    maxiteration, gradientfactor, tdensityrad, maxattraction,
    trajectories,              \* the result
    trajectory, slope, gradient, run,
    ti,                        \* the iteration counter i
    ek,                        \* position of the endpoint loop in endpoints
    tpc,                       \* position in getTrajectoriesFromImage
    \* ---- the similarity metrics and the skin, called on their own
    tracA, tracB,              \* the two trajectories passed
    overlap,                   \* <<yellow, min(green, red)>> of the overlap
    hausdorff,                 \* the squared Hausdorff distance
    skinA,                     \* getSkinOfTrajectory(tracA)
    mpc,                       \* which of the functions has returned
    \* ---- getResolutionOfTrajectories
    trajectory1, trajectory2,
    qx,                        \* the argument x
    yw1, yw2,                  \* what getYandWofTrajectory gave for the two
    res,                       \* the resolution returned
    qpc,                       \* position in getResolutionOfTrajectories
    \* ---- getInverseFlowDirection
    markers,                   \* the caller's list, ffedata["Flowmarkers"]
    flowmarkers,               \* the flow markers as read from the file
    transmatrix,
    inverseflow,
    fpc,                       \* position in getInverseFlowDirection
    \* ---- findWidthOfTrajectory
    wimage,                    \* image: its shape and its nonzero pixels
    wtrajectory,
    wdensityrad,
    newtrajectory,
    lastslope,
    wi,                        \* the loop index i
    wpc,                       \* position in findWidthOfTrajectory
    \* ---- findtrajectories.py, steps 6 and 7
    channels,                  \* the tracer's result for every channel to come
    finaltrajectories,
    noendpoints, minpoints,
    saved,                     \* what is stored under the key Trajectories
    spc,                       \* position in the script
    \* ---- getTrajectoriesFromImageDijkstra
    dstartpoints,              \* startpoints, the inlets (x, y, diameter)
    dendpoints,                \* endpoints (x, y, width)
    spvariancefactor,
    dtrajectories,             \* trajectories
    de,                        \* index of the endpoint in turn
    ds,                        \* index of the startpoint in turn
    dpc,                       \* position in getTrajectoriesFromImageDijkstra
    \* ---- findMiddleOfConsecutiveNumbers
    numbers,
    results,
    gpc,                       \* position in findMiddleOfConsecutiveNumbers
    \* ---- findEndpointsOfTrajectories
    eimage,                    \* image: the set of its nonzero pixels <<x, y>>
    threshpenetration,         \* in hundredths
    ordermin,                  \* in hundredths
    eendpoints,                \* endpoints
    epc,                       \* position in findEndpointsOfTrajectories
    \* ---- loadDictionaryFromPng, updateDictionaryOfPng, replaceDictionaryOfPng
    chunklist,                 \* the chunks of the file on disk
    updatedata,                \* the dictionary passed to the last call
    dellines,                  \* the lines pngdata.py del has read
    forcedel,
    command,                   \* the last operation on the file
    calls                      \* number of operations so far

combineVars == <<traclist1, traclist2, useHausdorff, maxoverlap, hausdorffbias,
                 workinglist, finallist, cpc, cevent>>

pathVars == <<image, startpoint, endpoint, bias, everyotherpoint, densityrad,
              densityimage, maxintensity, points, queue, tracker, path, current, n,
              ppc>>

zoneVars == <<contours, hierarchy, threshold, threshratio, variance, zi, zj, zresult, zpc>>

tracerVars == <<timage, startpoints, endpoints, flow, maxiteration, gradientfactor, tdensityrad,
                maxattraction, trajectories, trajectory, slope, gradient, run, ti, ek, tpc>>

metricVars == <<tracA, tracB, overlap, hausdorff, skinA, mpc>>

queryVars == <<trajectory1, trajectory2, qx, yw1, yw2, res, qpc>>

flowVars == <<markers, flowmarkers, transmatrix, inverseflow, fpc>>

widthVars == <<wimage, wtrajectory, wdensityrad, newtrajectory, lastslope, wi, wpc>>

storeVars == <<channels, finaltrajectories, noendpoints, minpoints, saved, spc>>

dijkstraVars == <<dstartpoints, dendpoints, spvariancefactor, dtrajectories, de, ds, dpc>>

middleVars == <<numbers, results, gpc>>

endpointsVars == <<eimage, threshpenetration, ordermin, eendpoints, epc>>

pngVars == <<chunklist, updatedata, dellines, forcedel, command, calls>>

vars == <<combineVars, pathVars, zoneVars, tracerVars, metricVars, queryVars, flowVars, widthVars,
          storeVars,
    dijkstraVars,
    middleVars,
    endpointsVars,
    pngVars>>

\* What the functions of one group leave alone.
exceptCombine == <<pathVars, zoneVars, tracerVars, metricVars, queryVars, flowVars, widthVars,
    storeVars,
    dijkstraVars,
    middleVars,
    endpointsVars,
    pngVars>>

exceptPath == <<combineVars, zoneVars, tracerVars, metricVars, queryVars, flowVars, widthVars,
    storeVars,
    dijkstraVars,
    middleVars,
    endpointsVars,
    pngVars>>

exceptZone == <<combineVars, pathVars, tracerVars, metricVars, queryVars, flowVars, widthVars,
    storeVars,
    dijkstraVars,
    middleVars,
    endpointsVars,
    pngVars>>

exceptTracer == <<combineVars, pathVars, zoneVars, metricVars, queryVars, flowVars, widthVars,
    storeVars,
    dijkstraVars,
    middleVars,
    endpointsVars,
    pngVars>>

exceptMetrics == <<combineVars, pathVars, zoneVars, tracerVars, queryVars, flowVars, widthVars,
    storeVars,
    dijkstraVars,
    middleVars,
    endpointsVars,
    pngVars>>

exceptQuery == <<combineVars, pathVars, zoneVars, tracerVars, metricVars, flowVars, widthVars,
    storeVars,
    dijkstraVars,
    middleVars,
    endpointsVars,
    pngVars>>

exceptFlow == <<combineVars, pathVars, zoneVars, tracerVars, metricVars, queryVars, widthVars,
    storeVars,
    dijkstraVars,
    middleVars,
    endpointsVars,
    pngVars>>

exceptWidth == <<combineVars, pathVars, zoneVars, tracerVars, metricVars, queryVars, flowVars,
    storeVars,
    dijkstraVars,
    middleVars,
    endpointsVars,
    pngVars>>

exceptStore == <<pathVars, zoneVars, tracerVars, metricVars, queryVars, flowVars, widthVars,
    combineVars,
    dijkstraVars,
    middleVars,
    endpointsVars,
    pngVars>>

\* getTrajectoriesFromImageDijkstra calls findPathOnImage and so drives the
\* variables of that group as well.
exceptDijkstra == <<combineVars, zoneVars, tracerVars, metricVars, queryVars, flowVars, widthVars,
    storeVars,
    middleVars,
    endpointsVars,
    pngVars>>

exceptMiddle == <<combineVars, pathVars, zoneVars, tracerVars, metricVars,
    queryVars, flowVars, widthVars, storeVars, dijkstraVars,
    endpointsVars,
    pngVars>>

exceptEndpoints == <<combineVars, pathVars, zoneVars, tracerVars, metricVars,
    queryVars, flowVars, widthVars, storeVars, dijkstraVars, middleVars,
    pngVars>>

exceptPng == <<combineVars, pathVars, zoneVars, tracerVars, metricVars,
    queryVars, flowVars, widthVars, storeVars, dijkstraVars, middleVars,
    endpointsVars>>

(***************************************************************************)
(* Generic helpers                                                         *)
(***************************************************************************)
Range(s) == {s[i] : i \in 1..Len(s)}

Last(s) == s[Len(s)]

Front(s) == SubSeq(s, 1, Len(s) - 1)

Reverse(s) == [i \in 1..Len(s) |-> s[Len(s) + 1 - i]]

SetMin(S) == CHOOSE m \in S : \A o \in S : m <= o

SetMax(S) == CHOOSE m \in S : \A o \in S : m >= o

Abs(i) == IF i < 0 THEN -i ELSE i

\* Python 2 int(): truncation towards zero of the rational num/den (den > 0).
TruncDiv(num, den) == IF num >= 0 THEN num \div den ELSE -((-num) \div den)

\* All sequences over S of length 0..m.
SeqsUpTo(S, m) == UNION {[1..k -> S] : k \in 0..m}

\* Number of positions of s holding v.
Count(s, v) == Cardinality({i \in 1..Len(s) : s[i] = v})

(***************************************************************************)
(* Trajectories: sequences of points <<x, y, w>>.                          *)
(* The merge is exercised on horizontal traces (inlet left, outlet right)  *)
(* over the x-coordinates TracXs, on image row TracY, with width TracW,    *)
(* plus the one-point lists a tracer cannot return but a caller can pass.  *)
(***************************************************************************)
TracXs == {0, 1, 3}

TracY == 2

TracW == 2

Pt3(x) == <<x, TracY, TracW>>

TracPool ==
    {<<Pt3(a)>> : a \in TracXs}
    \cup {<<Pt3(a), Pt3(b)>> : <<a, b>> \in {p \in TracXs \X TracXs : p[1] < p[2]}}
    \cup {<<Pt3(a), Pt3(b), Pt3(c)>> :
            <<a, b, c>> \in {p \in TracXs \X TracXs \X TracXs : p[1] < p[2] /\ p[2] < p[3]}}

\* Total number of trajectories handed to one combineTrajectories call.
MaxList == 3

(***************************************************************************)
(* calculateTrajectoriesDistanceHausdorff: the symmetric maximum of the    *)
(* two directed max-of-min euclidean distances.  Distances are kept        *)
(* squared (the square is monotone on distances).                          *)
(***************************************************************************)
SqDist(p, q) == (p[1] - q[1]) * (p[1] - q[1]) + (p[2] - q[2]) * (p[2] - q[2])

DirectedSqHausdorff(trac1, trac2) ==
    SetMax({SetMin({SqDist(trac1[i], trac2[j]) : j \in 1..Len(trac2)}) : i \in 1..Len(trac1)})

\* Mutant: the directed distance from trac1 to trac2 alone.
calculateTrajectoriesSqDistanceHausdorffDirected(trac1, trac2) ==
    IF Len(trac1) = 0 \/ Len(trac2) = 0
    THEN 0
    ELSE DirectedSqHausdorff(trac1, trac2)

calculateTrajectoriesSqDistanceHausdorff(trac1, trac2) ==
    IF Len(trac1) = 0 \/ Len(trac2) = 0
    THEN 0
    ELSE LET d12 == DirectedSqHausdorff(trac1, trac2)
             d21 == DirectedSqHausdorff(trac2, trac1)
         IN  IF d12 >= d21 THEN d12 ELSE d21

(***************************************************************************)
(* calculateTrajectoryRectangle: bounding rectangle of the circles around  *)
(* the points, as [(x, y), (x + w, y + h)] of cv2.boundingRect.            *)
(***************************************************************************)
calculateTrajectoryRectangle(trac) ==
    LET xs == {trac[i][1] - (trac[i][3] \div 2) - 1 : i \in 1..Len(trac)}
              \cup {trac[i][1] + (trac[i][3] \div 2) + 1 : i \in 1..Len(trac)}
        ys == {trac[i][2] - (trac[i][3] \div 2) - 1 : i \in 1..Len(trac)}
              \cup {trac[i][2] + (trac[i][3] \div 2) + 1 : i \in 1..Len(trac)}
    IN  <<<<SetMin(xs), SetMin(ys)>>, <<SetMax(xs) + 1, SetMax(ys) + 1>>>>

(***************************************************************************)
(* getSkinOfTrajectory for traces whose segments all point in +x: slope    *)
(* and lastslope are (1, 0) at every index, their cross product is 0, so   *)
(* the skin vector is the rotated lastslope (0, 1); cross(slope, skin) = 1 *)
(* puts the "+" point on the left side.  Fewer than two points: no skin.   *)
(***************************************************************************)
\* Mutant: the second side is appended without being reversed.
getSkinOfTrajectoryUnreversed(trac) ==
    IF Len(trac) < 2
    THEN <<>>
    ELSE LET skinleft  == [i \in 1..Len(trac) |->
                             <<trac[i][1],
                               TruncDiv(2 * trac[i][2] + trac[i][3], 2)>>]
             skinright == [i \in 1..Len(trac) |->
                             <<trac[i][1],
                               TruncDiv(2 * trac[i][2] - trac[i][3], 2)>>]
         IN  skinleft \o skinright

getSkinOfTrajectory(trac) ==
    IF Len(trac) < 2
    THEN <<>>
    ELSE LET skinleft  == [i \in 1..Len(trac) |->
                             <<trac[i][1],
                               TruncDiv(2 * trac[i][2] + trac[i][3], 2)>>]
             skinright == [i \in 1..Len(trac) |->
                             <<trac[i][1],
                               TruncDiv(2 * trac[i][2] - trac[i][3], 2)>>]
         IN  skinleft \o Reverse(skinright)

(***************************************************************************)
(* cv2.fillPoly on a canvas of the rectangle's size, for the axis-parallel *)
(* rectangles that the skins above are: every pixel of the closed          *)
(* rectangle, after the offset by the top-left corner, clipped to the      *)
(* canvas.  The result is the set of coloured pixels.                      *)
(***************************************************************************)
fillPoly(skin, rect) ==
    LET width  == rect[2][1] - rect[1][1]
        height == rect[2][2] - rect[1][2]
        pxs == {skin[i][1] - rect[1][1] : i \in 1..Len(skin)}
        pys == {skin[i][2] - rect[1][2] : i \in 1..Len(skin)}
    IN  {p \in (SetMin(pxs)..SetMax(pxs)) \X (SetMin(pys)..SetMax(pys)) :
            /\ 0 <= p[1] /\ p[1] < width
            /\ 0 <= p[2] /\ p[2] < height}

\* Mutant: the yellow pixels are counted against the first trajectory alone.
calculateTrajectoriesOverlapOfFirst(trac1, trac2) ==
    IF Len(trac1) = 0 \/ Len(trac2) = 0
    THEN <<0, 1>>
    ELSE LET rect  == calculateTrajectoryRectangle(trac1 \o trac2)
             skin1 == getSkinOfTrajectory(trac1)
             skin2 == getSkinOfTrajectory(trac2)
         IN  IF Len(skin1) = 0 \/ Len(skin2) = 0
             THEN <<0, 1>>
             ELSE LET image1 == fillPoly(skin1, rect)
                      image2 == fillPoly(skin2, rect)
                      green  == Cardinality(image1)
                      yellow == Cardinality(image1 \cap image2)
                  IN  IF green = 0 \/ yellow = 0 THEN <<0, 1>> ELSE <<yellow, green>>

(***************************************************************************)
(* calculateTrajectoriesOverlap as the pair <<yellow, min(green, red)>>;   *)
(* the float returned is yellow / min(green, red), and 0.0 is <<0, 1>>.    *)
(***************************************************************************)
calculateTrajectoriesOverlap(trac1, trac2) ==
    IF Len(trac1) = 0 \/ Len(trac2) = 0
    THEN <<0, 1>>
    ELSE LET rect  == calculateTrajectoryRectangle(trac1 \o trac2)
             skin1 == getSkinOfTrajectory(trac1)
             skin2 == getSkinOfTrajectory(trac2)
         IN  IF Len(skin1) = 0 \/ Len(skin2) = 0
             THEN <<0, 1>>
             ELSE LET image1 == fillPoly(skin1, rect)
                      image2 == fillPoly(skin2, rect)
                      green  == Cardinality(image1)
                      red    == Cardinality(image2)
                      yellow == Cardinality(image1 \cap image2)
                      least  == IF green <= red THEN green ELSE red
                  IN  IF least = 0 \/ yellow = 0 THEN <<0, 1>> ELSE <<yellow, least>>

(***************************************************************************)
(* The similarity test of the merge loop (ffe.py 1474-1477).               *)
(***************************************************************************)
criteria(item, finalitem) ==
    IF useHausdorff
    THEN calculateTrajectoriesSqDistanceHausdorff(item, finalitem)
            <= hausdorffbias * hausdorffbias
    ELSE LET o == calculateTrajectoriesOverlap(item, finalitem)
         IN  4 * o[1] >= maxoverlap * o[2]

(***************************************************************************)
(* combineTrajectories                                                     *)
(***************************************************************************)
\* list.index(v): the first position holding a value equal to v.
IndexOf(list, v) == SetMin({i \in 1..Len(list) : list[i] = v})

\* The position at which the for loop over finallist breaks, 0 if it runs out.
FirstSimilar(item, list) ==
    IF \E i \in 1..Len(list) : criteria(item, list[i])
    THEN SetMin({i \in 1..Len(list) : criteria(item, list[i])})
    ELSE 0

\* Mutant: a trajectory equal to an accepted one is dropped without the
\* similarity test having found it (membership test instead of the flag).
MergeItemSkipsKnown(item, list) ==
    LET at == FirstSimilar(item, list)
    IN  IF at = 0
        THEN IF item \in Range(list) THEN list ELSE Append(list, item)
        ELSE IF Len(item) > Len(list[at])
             THEN [list EXCEPT ![IndexOf(list, list[at])] = item]
             ELSE list

\* Mutant: the accepted entry is overwritten on a tie as well (>= for >).
MergeItemReplacesOnTie(item, list) ==
    LET at == FirstSimilar(item, list)
    IN  IF at = 0
        THEN Append(list, item)
        ELSE IF Len(item) >= Len(list[at])
             THEN [list EXCEPT ![IndexOf(list, list[at])] = item]
             ELSE list

\* finallist after one iteration of the while loop for the popped item.
MergeItem(item, list) ==
    LET at == FirstSimilar(item, list)
    IN  IF at = 0
        THEN Append(list, item)
        ELSE IF Len(item) > Len(list[at])
             THEN [list EXCEPT ![IndexOf(list, list[at])] = item]
             ELSE list

CombineIdle ==
    /\ traclist1 = <<>> /\ traclist2 = <<>>
    /\ useHausdorff = FALSE /\ maxoverlap = 3 /\ hausdorffbias = 10
    /\ workinglist = <<>> /\ finallist = <<>>
    /\ cpc = "idle" /\ cevent = "none"

CombineStart ==
    /\ \E both \in SeqsUpTo(TracPool, MaxList) : \E cut \in 0..Len(both) :
          /\ traclist1 = SubSeq(both, 1, cut)
          /\ traclist2 = SubSeq(both, cut + 1, Len(both))
    \* the parameter of the metric not in use keeps its default (0.75, 10.0)
    /\ \/ useHausdorff = TRUE /\ hausdorffbias \in {1, 2} /\ maxoverlap = 3
       \/ useHausdorff = FALSE /\ hausdorffbias = 10 /\ maxoverlap \in {2, 3}
    /\ workinglist = <<>>
    /\ finallist = <<>>
    /\ cpc = "call"
    /\ cevent = "none"

\* ffe.py 1457-1461: pool both lists, start with an empty result.
CombineBegin ==
    /\ cpc = "call"
    /\ workinglist' = traclist1 \o traclist2
    /\ finallist' = <<>>
    /\ cpc' = "loop"
    /\ cevent' = "none"
    /\ UNCHANGED <<traclist1, traclist2, useHausdorff, maxoverlap, hausdorffbias>>
    /\ UNCHANGED exceptCombine

\* ffe.py 1464-1494: one iteration of the while loop.
CombineStep ==
    /\ cpc = "loop"
    /\ Len(workinglist) > 0
    /\ LET item == Last(workinglist)
           at   == FirstSimilar(item, finallist)
       IN  /\ workinglist' = Front(workinglist)
           /\ finallist' = MergeItem(item, finallist)
           /\ cevent' = IF at = 0 THEN "appended"
                        ELSE IF Len(item) > Len(finallist[at]) THEN "replaced"
                        ELSE "kept"
    /\ UNCHANGED <<traclist1, traclist2, useHausdorff, maxoverlap, hausdorffbias, cpc>>
    /\ UNCHANGED exceptCombine

\* ffe.py 1496-1497: the loop is over, finallist is returned.
CombineReturn ==
    /\ cpc = "loop"
    /\ Len(workinglist) = 0
    /\ cpc' = "done"
    /\ UNCHANGED <<traclist1, traclist2, useHausdorff, maxoverlap, hausdorffbias,
                   workinglist, finallist, cevent>>
    /\ UNCHANGED exceptCombine

CombineNext == CombineBegin \/ CombineStep \/ CombineReturn

(***************************************************************************)
(* findPathOnImage                                                         *)
(*                                                                         *)
(* Images are ImageWidth x ImageHeight with pixel values 0 (dark) and 1    *)
(* (bright), at most MaxDark dark pixels among those that can carry a      *)
(* density for radius 1.  The search runs backwards, as getTrajectoriesFromImageDijkstra   *)
(* calls it (ffe.py 1745): from a pixel of the outlet side to a pixel of   *)
(* the inlet side; the two image corners are start and end candidates too. *)
(***************************************************************************)
ImageWidth == 6

ImageHeight == 4

MaxDark == 2

MaxEvery == 2

Pixels == (0..(ImageWidth - 1)) \X (0..(ImageHeight - 1))

\* Sum of the values v of the set vals, each taken f-times-v-many times.
RECURSIVE WeightedSum(_, _, _)
WeightedSum(vals, S, f) ==
    IF vals = {} THEN 0
    ELSE LET v == CHOOSE u \in vals : TRUE
         IN  v * Cardinality({q \in S : f[q] = v}) + WeightedSum(vals \ {v}, S, f)

\* ndarray.sum(): the sum of f over the pixels of S.
SumOver(S, f) == WeightedSum({f[q] : q \in S}, S, f)

SubsetsUpTo(S, k) == {D \in SUBSET S : Cardinality(D) <= k}

\* ffe.py 1534: a number no path cost reaches.  hypot(height, width) is at
\* least the larger edge, which is what is kept of it here.
infinite == 100000000 * (IF ImageWidth >= ImageHeight THEN ImageWidth ELSE ImageHeight)

\* Mutant: the loops run over the whole image and the window is cut at the
\* image border, so border pixels get a density too.
DensityAtWithBorder(img, rad, p) ==
    IF img[p] # 0
    THEN SumOver((((p[1] - rad)..(p[1] + rad - 1)) \X ((p[2] - rad)..(p[2] + rad - 1)))
                    \cap Pixels, img)
    ELSE 0

\* ffe.py 1537-1544: the density of a pixel is the sum of the 2r x 2r window
\* that starts r pixels up and left of it; pixels that are dark, and pixels
\* nearer than r to the border, keep density 0.
DensityAt(img, rad, p) ==
    IF /\ rad <= p[1] /\ p[1] < ImageWidth - rad
       /\ rad <= p[2] /\ p[2] < ImageHeight - rad
       /\ img[p] # 0
    THEN SumOver(((p[1] - rad)..(p[1] + rad - 1)) \X ((p[2] - rad)..(p[2] + rad - 1)), img)
    ELSE 0

\* ffe.py 1576: np.where(densityimage > bias), as a set of pixels <<x, y>>.
PointsAbove(dens, b) == {p \in Pixels : dens[p] > b}

\* np.where lists the pixels row by row: the (0-based) list index of a pixel
\* of the set is the number of pixels before it in (y, x) order.
RowMajorLess(p, q) == p[2] < q[2] \/ (p[2] = q[2] /\ p[1] < q[1])

RowMajor(pts) ==
    [i \in 1..Cardinality(pts) |->
        CHOOSE p \in pts : Cardinality({q \in pts : RowMajorLess(q, p)}) = i - 1]

\* list.index(p), 0-based as in Python.
PointsIndex(pts, p) == (CHOOSE i \in 1..Len(pts) : pts[i] = p) - 1

\* pts[i] with Python's 0-based index.
PointsAt(pts, i) == pts[i + 1]

\* Tuple order of the heap entries (distance, x, y).
TupleLess(a, b) ==
    \/ a[1] < b[1]
    \/ a[1] = b[1] /\ a[2] < b[2]
    \/ a[1] = b[1] /\ a[2] = b[2] /\ a[3] < b[3]

\* heapq._siftdown(heap, startpos, pos) for the entry newitem taken from
\* position pos; positions count from 0 as in Python.
RECURSIVE SiftDown(_, _, _, _)
SiftDown(heap, startpos, pos, newitem) ==
    IF pos > startpos /\ TupleLess(newitem, heap[(pos - 1) \div 2 + 1])
    THEN SiftDown([heap EXCEPT ![pos + 1] = heap[(pos - 1) \div 2 + 1]],
                  startpos, (pos - 1) \div 2, newitem)
    ELSE [heap EXCEPT ![pos + 1] = newitem]

\* heapq._siftup(heap, pos): the smaller child moves up until a leaf is
\* reached, then newitem is sifted down from there.
RECURSIVE SiftUpFrom(_, _, _, _)
SiftUpFrom(heap, startpos, pos, newitem) ==
    LET childpos == 2 * pos + 1
        rightpos == childpos + 1
        smaller  == IF rightpos < Len(heap) /\ ~TupleLess(heap[childpos + 1], heap[rightpos + 1])
                    THEN rightpos ELSE childpos
    IN  IF childpos < Len(heap)
        THEN SiftUpFrom([heap EXCEPT ![pos + 1] = heap[smaller + 1]], startpos, smaller, newitem)
        ELSE SiftDown(heap, startpos, pos, newitem)

SiftUp(heap, pos) == SiftUpFrom(heap, pos, pos, heap[pos + 1])

\* heapq.heappush(heap, item)
heappush(heap, item) == SiftDown(Append(heap, item), 0, Len(heap), item)

\* Mutant: the last entry takes the place of the first and stays there.
heappopWithoutSifting(heap) ==
    IF Len(heap) = 1 THEN <<>>
    ELSE [Front(heap) EXCEPT ![1] = Last(heap)]

\* heapq.heappop(heap): what is left of the heap; heap[0] is returned.
heappop(heap) ==
    IF Len(heap) = 1 THEN <<>>
    ELSE SiftUp([Front(heap) EXCEPT ![1] = Last(heap)], 0)

\* heapq.heapify(x): _siftup for the positions n // 2 - 1 down to 0
RECURSIVE HeapifyFrom(_, _)
HeapifyFrom(heap, pos) ==
    IF pos < 0 THEN heap ELSE HeapifyFrom(SiftUp(heap, pos), pos - 1)

heapify(heap) == HeapifyFrom(heap, Len(heap) \div 2 - 1)

\* ffe.py 1585-1588: the entries are pushed in the order of points
RECURSIVE PushAll(_, _)
PushAll(heap, items) ==
    IF items = <<>> THEN heap
    ELSE PushAll(heappush(heap, Head(items)), Tail(items))

\* del queue[queue.index(neighbour)]
Deleted(heap, node) ==
    LET at == SetMin({i \in 1..Len(heap) : heap[i] = node})
    IN  SubSeq(heap, 1, at - 1) \o SubSeq(heap, at + 1, Len(heap))

\* Mutant: the distance is compared without int(), which leaves the four
\* edge neighbours only.
IsEdgeNeighbour(node, item) ==
    (node[2] - item[2]) * (node[2] - item[2])
        + (node[3] - item[3]) * (node[3] - item[3]) = 1

\* ffe.py 1603: int(math.hypot(dx, dy)) == 1, i.e. 1 <= dx^2 + dy^2 < 4.
IsNeighbour(node, item) ==
    LET d == (node[2] - item[2]) * (node[2] - item[2])
             + (node[3] - item[3]) * (node[3] - item[3])
    IN  1 <= d /\ d < 4

\* Mutant: the brighter the pixel, the higher the cost.
AltDistanceBrightIsDear(item, node) ==
    item[1] + densityimage[<<node[2], node[3]>>]

\* ffe.py 1610-1613
AltDistance(item, node) ==
    item[1] + (maxintensity - densityimage[<<node[2], node[3]>>])

\* ffe.py 1606-1627: the loop over the neighbours, in the order they had in
\* the queue: a shorter distance deletes the entry and pushes the new one.
RECURSIVE UpdatedQueue(_, _, _)
UpdatedQueue(heap, firstitem, neighbours) ==
    IF neighbours = <<>> THEN heap
    ELSE LET neighbour == Head(neighbours)
         IN  UpdatedQueue(
                IF AltDistance(firstitem, neighbour) < neighbour[1]
                THEN heappush(Deleted(heap, neighbour),
                              <<AltDistance(firstitem, neighbour), neighbour[2], neighbour[3]>>)
                ELSE heap,
                firstitem, Tail(neighbours))

\* Mutant: the decimation test alone, the start pixel is not forced in.
KeepPointWithoutStart(k, cur) == (k % everyotherpoint) = 0

\* ffe.py 1660: the chain pixel is recorded at every everyotherpoint-th step
\* and whenever it is the start pixel.
KeepPoint(k, cur) == (k % everyotherpoint) = 0 \/ cur = startpoint

\* An argument of a direct call is drawn where the function first reads it;
\* a call made by getTrajectoriesFromImageDijkstra passes the caller's value.
Argument(given, values) == IF dpc = "idle" THEN values ELSE {given}

PathIdle ==
    /\ image = <<>> /\ startpoint = <<0, 0>> /\ endpoint = <<0, 0>>
    /\ bias = 0 /\ everyotherpoint = 1 /\ densityrad = 0
    /\ densityimage = <<>> /\ maxintensity = 0 /\ points = <<>>
    /\ queue = <<>> /\ tracker = <<>>
    /\ path = <<>> /\ current = <<0, 0>> /\ n = 0
    /\ ppc = "idle"

\* Start candidates: the top-left corner and the pixels of the first column
\* that can carry a density; end candidates: the bottom-right corner and the
\* pixels of the last two such columns, or the start itself.
StartCandidates(rad) ==
    {<<0, 0>>} \cup {<<rad, y>> : y \in rad..(ImageHeight - 1 - rad)}

EndCandidates(rad) ==
    {<<ImageWidth - 1, ImageHeight - 1>>}
    \cup {<<x, y>> : x \in {ImageWidth - 2 - rad, ImageWidth - 1 - rad},
                      y \in rad..(ImageHeight - 1 - rad)}

PathStart ==
    /\ \E dark \in SubsetsUpTo({1, 2, 3, ImageWidth - 2} \X {1, 2}, MaxDark) :
          image = [p \in Pixels |-> IF p \in dark THEN 0 ELSE 1]
    /\ densityrad \in {0, 1}
    /\ startpoint \in StartCandidates(densityrad)
    /\ endpoint \in EndCandidates(densityrad) \cup {startpoint}
    /\ bias = 0 /\ everyotherpoint = 1
    /\ densityimage = <<>> /\ maxintensity = 0 /\ points = <<>>
    /\ queue = <<>> /\ tracker = <<>>
    /\ path = <<>> /\ current = <<0, 0>> /\ n = 0
    /\ ppc = "call"

\* ffe.py 1529-1591: density image, the test of the two end pixels, the heap
\* with every passable pixel, the tracker image.
PathPrepare ==
    /\ ppc = "call"
    /\ densityimage' = [p \in Pixels |-> DensityAt(image, densityrad, p)]
    /\ maxintensity' = SetMax({densityimage'[p] : p \in Pixels})
    /\ \E b \in Argument(bias, {0, 2}) : bias' = b
    /\ IF densityimage'[startpoint] = 0 \/ densityimage'[endpoint] = 0
       THEN /\ path' = <<>>
            /\ ppc' = "done"
            /\ UNCHANGED <<points, queue, tracker>>
       ELSE /\ points' = RowMajor(PointsAbove(densityimage', bias'))
            /\ queue' = PushAll(<<>>, [i \in 1..Len(points') |->
                                         <<IF points'[i] = startpoint THEN 0 ELSE infinite,
                                           points'[i][1], points'[i][2]>>])
            /\ tracker' = [p \in Pixels |-> IF p = endpoint THEN -1 ELSE 0]
            /\ ppc' = "search"
            /\ UNCHANGED path
    /\ UNCHANGED <<image, startpoint, endpoint, everyotherpoint, densityrad, current, n>>
    /\ UNCHANGED exceptPath

\* ffe.py 1594-1635: one iteration of the search loop.
PathSearchStep ==
    /\ ppc = "search"
    /\ queue # <<>>
    /\ LET firstitem == queue[1]
           rest      == heappop(queue)
       IN  IF firstitem[2] = endpoint[1] /\ firstitem[3] = endpoint[2]
           THEN /\ queue' = rest
                /\ ppc' = "backtrack"
                /\ UNCHANGED tracker
           ELSE LET neighbours == SelectSeq(rest, LAMBDA node : IsNeighbour(node, firstitem))
                    shorter    == {node \in Range(neighbours) :
                                     AltDistance(firstitem, node) < node[1]}
                IN  /\ queue' = IF shorter = {} THEN rest
                                 ELSE heapify(UpdatedQueue(rest, firstitem, neighbours))
                    /\ tracker' = [p \in {<<node[2], node[3]>> : node \in shorter} |->
                                     PointsIndex(points, <<firstitem[2], firstitem[3]>>)]
                                   @@ tracker
                    /\ UNCHANGED ppc
    /\ UNCHANGED <<image, startpoint, endpoint, bias, everyotherpoint, densityrad,
                   densityimage, maxintensity, points, path, current, n>>
    /\ UNCHANGED exceptPath

\* ffe.py 1594: the heap ran empty before the end pixel was popped.
PathSearchExhausted ==
    /\ ppc = "search"
    /\ queue = <<>>
    /\ ppc' = "backtrack"
    /\ UNCHANGED <<image, startpoint, endpoint, bias, everyotherpoint, densityrad,
                   densityimage, maxintensity, points, queue, tracker, path, current, n>>
    /\ UNCHANGED exceptPath

\* ffe.py 1637-1652: mark the start, give up if the end was never entered,
\* otherwise begin the backtracking at the end pixel.
PathBacktrackBegin ==
    /\ ppc = "backtrack"
    /\ tracker' = [tracker EXCEPT ![startpoint] = -1]
    /\ \E e \in Argument(everyotherpoint, 1..MaxEvery) : everyotherpoint' = e
    /\ IF tracker'[endpoint] = -1
       THEN /\ path' = <<>>
            /\ ppc' = "done"
            /\ UNCHANGED <<current, n>>
       ELSE /\ path' = <<endpoint>>
            /\ current' = endpoint
            /\ n' = 0
            /\ ppc' = "walk"
    /\ UNCHANGED <<image, startpoint, endpoint, bias, densityrad, densityimage,
                   maxintensity, points, queue>>
    /\ UNCHANGED exceptPath

\* ffe.py 1655-1664: one step back along the predecessors.
PathWalk ==
    /\ ppc = "walk"
    /\ tracker[current] # -1 /\ current # startpoint
    /\ current' = PointsAt(points, tracker[current])
    /\ path' = IF KeepPoint(n, current') THEN <<current'>> \o path ELSE path
    /\ n' = n + 1
    /\ UNCHANGED <<image, startpoint, endpoint, bias, everyotherpoint, densityrad,
                   densityimage, maxintensity, points, queue, tracker, ppc>>
    /\ UNCHANGED exceptPath

\* ffe.py 1672-1677: a "path" of one point is dumped.
PathReturn ==
    /\ ppc = "walk"
    /\ ~(tracker[current] # -1 /\ current # startpoint)
    /\ path' = IF Len(path) < 2 THEN <<>> ELSE path
    /\ ppc' = "done"
    /\ UNCHANGED <<image, startpoint, endpoint, bias, everyotherpoint, densityrad,
                   densityimage, maxintensity, points, queue, tracker, current, n>>
    /\ UNCHANGED exceptPath

PathNext ==
    \/ PathPrepare
    \/ PathSearchStep
    \/ PathSearchExhausted
    \/ PathBacktrackBegin
    \/ PathWalk
    \/ PathReturn

(***************************************************************************)
(* findSeparationZoneBoundaries                                            *)
(*                                                                         *)
(* A contour is represented by its cv2.contourArea, the only thing the     *)
(* function reads of it; hierarchy[0] is a list of <<next, prev, child,    *)
(* parent>> with 0-based contour indices and -1 for "none".  The ratio     *)
(* threshold and its variance are kept in hundredths (80 = 0.80).          *)
(***************************************************************************)
MaxContours == 3

AreaValues == {0, 7, 8, 10}

\* Python's 0-based list access.
At0(list, i) == list[i + 1]

\* The hierarchy cv2.findContours reports for a nesting given by parent
\* indices: child is the first contour nested directly inside, next/prev
\* link the contours of the same parent.
HierarchyOf(parent) ==
    [k \in 1..Len(parent) |->
        LET i        == k - 1
            siblings == {j \in 0..(Len(parent) - 1) : j # i /\ At0(parent, j) = At0(parent, i)}
            children == {j \in 0..(Len(parent) - 1) : At0(parent, j) = i}
            after    == {j \in siblings : j > i}
            before   == {j \in siblings : j < i}
        IN  << IF after = {} THEN -1 ELSE SetMin(after),
               IF before = {} THEN -1 ELSE SetMax(before),
               IF children = {} THEN -1 ELSE SetMin(children),
               At0(parent, i) >>]

\* Parent indices that describe a nesting: following the parents from any
\* contour ends at a top-level contour.
RECURSIVE Depth(_, _, _)
Depth(parent, i, fuel) ==
    IF At0(parent, i) = -1 THEN 0
    ELSE IF fuel = 0 THEN -1
    ELSE LET d == Depth(parent, At0(parent, i), fuel - 1)
         IN  IF d = -1 THEN -1 ELSE d + 1

IsNesting(parent) ==
    \A i \in 0..(Len(parent) - 1) :
        /\ At0(parent, i) # i
        /\ Depth(parent, i, Len(parent)) # -1

\* round(c / p, 1) in tenths, for c >= 0 and p > 0: halves away from zero.
RoundedRatio(areachild, areaparent) == (20 * areachild + areaparent) \div (2 * areaparent)

\* ffe.py 574-577: the area of the parent, 1.0 if it is 0.
AreaParent(i) == IF At0(contours, i) = 0 THEN 1 ELSE At0(contours, i)

\* ffe.py 593-597: the child must reach the area threshold as well.
ChildLargeEnough(j) == At0(contours, j) >= threshold

\* ffe.py 600-605: the rounded ratio lies in [threshratio - variance,
\* threshratio + variance].
RatioInRange(i, j) ==
    LET ratio == 10 * RoundedRatio(At0(contours, j), AreaParent(i))
    IN  threshratio - variance <= ratio /\ ratio <= threshratio + variance

ZoneIdle ==
    /\ contours = <<>> /\ hierarchy = <<>>
    /\ threshold = 0 /\ threshratio = 0 /\ variance = 0
    /\ zi = 0 /\ zj = 0 /\ zresult = <<>>
    /\ zpc = "idle"

ZoneStart ==
    /\ \E parent \in UNION {[1..k -> -1..(k - 1)] : k \in 1..MaxContours} :
          /\ IsNesting(parent)
          /\ contours \in [1..Len(parent) -> AreaValues]
          \* a nested contour is not larger than the contour around it
          /\ \A j \in 0..(Len(parent) - 1) :
                At0(parent, j) # -1 => At0(contours, j) <= At0(contours, At0(parent, j))
          \* hierarchy matches the contours, or has lost its last entry
          /\ hierarchy \in {HierarchyOf(parent), Front(HierarchyOf(parent))}
    /\ threshold \in {5, 9}
    /\ \E window \in {<<80, 5>>, <<87, 2>>} :
          threshratio = window[1] /\ variance = window[2]
    /\ zi = 0 /\ zj = 0 /\ zresult = <<>>
    /\ zpc = "call"

zoneInputs == <<contours, hierarchy, threshold, threshratio, variance>>

\* ffe.py 553-562
ZoneBegin ==
    /\ zpc = "call"
    /\ IF Len(contours) # Len(hierarchy)
       THEN zresult' = <<-1, -1>> /\ zpc' = "done" /\ UNCHANGED <<zi, zj>>
       ELSE zi' = 0 /\ zpc' = "outer" /\ UNCHANGED <<zj, zresult>>
    /\ UNCHANGED zoneInputs
    /\ UNCHANGED exceptZone

\* ffe.py 562-587: one contour of the outer loop.
ZoneOuter ==
    /\ zpc = "outer"
    /\ zi < Len(contours)
    /\ IF \/ At0(hierarchy, zi)[4] # -1
          \/ At0(hierarchy, zi)[3] = -1
          \/ AreaParent(zi) < threshold
       THEN zi' = zi + 1 /\ UNCHANGED <<zj, zpc>>
       ELSE zj' = 0 /\ zpc' = "inner" /\ UNCHANGED zi
    /\ UNCHANGED zresult
    /\ UNCHANGED zoneInputs
    /\ UNCHANGED exceptZone

\* ffe.py 587-609: one contour of the inner loop.
ZoneInner ==
    /\ zpc = "inner"
    /\ zj < Len(contours)
    /\ IF At0(hierarchy, zj)[4] # zi \/ ~ChildLargeEnough(zj) \/ ~RatioInRange(zi, zj)
       THEN zj' = zj + 1 /\ UNCHANGED <<zresult, zpc>>
       ELSE zresult' = <<zi, zj>> /\ zpc' = "done" /\ UNCHANGED zj
    /\ UNCHANGED zi
    /\ UNCHANGED zoneInputs
    /\ UNCHANGED exceptZone

\* ffe.py 587: the inner loop ran out, the outer loop goes on.
ZoneInnerEnd ==
    /\ zpc = "inner"
    /\ zj = Len(contours)
    /\ zi' = zi + 1
    /\ zpc' = "outer"
    /\ UNCHANGED <<zj, zresult>>
    /\ UNCHANGED zoneInputs
    /\ UNCHANGED exceptZone

\* ffe.py 611-612
ZoneNotFound ==
    /\ zpc = "outer"
    /\ zi = Len(contours)
    /\ zresult' = <<-1, -1>>
    /\ zpc' = "done"
    /\ UNCHANGED <<zi, zj>>
    /\ UNCHANGED zoneInputs
    /\ UNCHANGED exceptZone

ZoneNext == ZoneBegin \/ ZoneOuter \/ ZoneInner \/ ZoneInnerEnd \/ ZoneNotFound

(***************************************************************************)
(* getTrajectoriesFromImage                                                *)
(*                                                                         *)
(* The image is a function on <<x, y>>.  A slope is kept as an integer     *)
(* direction <<dx, dy>> standing for the unit vector dx,dy / |dx,dy| (the  *)
(* zero vector for <<0, 0>>); gradientfactor is kept in tenths.  With the  *)
(* step sizes used here no product slope * gradient is an integer unless   *)
(* the direction is axis-parallel, so truncation is decided exactly.       *)
(***************************************************************************)
TracerWidth == 8

TracerHeight == 3

MaxIteration == 2

Bright == 255

TracerPixels == (0..(TracerWidth - 1)) \X (0..(TracerHeight - 1))

\* The pixels a stream may light: the row of the first endpoint up to two
\* columns before it, and one pixel of the row of the second endpoint.
StreamPixels == ((0..(TracerWidth - 3)) \X {1}) \cup {<<2, 2>>}

Endpoint1 == <<TracerWidth - 1, 1, 1>>

Endpoint2 == <<TracerWidth - 1, 2, 1>>

Inlet1 == <<0, 1, 0>>

Inlet2 == <<0, 2, 2>>

\* The indices a Python slice [start:stop] selects of a list of length len.
SliceIndices(start, stop, len) ==
    LET norm(v) == IF v < 0 THEN (IF v + len < 0 THEN 0 ELSE v + len)
                   ELSE (IF v > len THEN len ELSE v)
        s == norm(start)
        e == norm(stop)
    IN  [k \in 1..(IF e > s THEN e - s ELSE 0) |-> s + k - 1]

\* ffe.py 1069-1070: image[top:top+gradient, left:left+gradient], as the
\* image rows and columns it selects.
ImageSlice(topleft) ==
    [rows |-> SliceIndices(topleft[2], topleft[2] + gradient, TracerHeight),
     cols |-> SliceIndices(topleft[1], topleft[1] + gradient, TracerWidth)]

SliceSize(sl) == Len(sl.rows) * Len(sl.cols)

SliceCoords(sl) == (0..(Len(sl.rows) - 1)) \X (0..(Len(sl.cols) - 1))

\* imageslice[y, x]
SliceValue(sl, y, x) == timage[<<sl.cols[x + 1], sl.rows[y + 1]>>]

\* imageslice[y-rad:y+rad, x-rad:x+rad].sum()
SliceBoxSum(sl, y, x, rad) ==
    LET ys == Range(SliceIndices(y - rad, y + rad, Len(sl.rows)))
        xs == Range(SliceIndices(x - rad, x + rad, Len(sl.cols)))
    IN  Bright * Cardinality({c \in ys \X xs : SliceValue(sl, c[1], c[2]) # 0})

\* ffe.py 647-664 applied to coordinates <<row, col>> in row-major order:
\* the first element of the stable sort by distance to <<c, c>>.
NearestTo(coords, c) ==
    LET d(q) == (q[1] - c) * (q[1] - c) + (q[2] - c) * (q[2] - c)
    IN  CHOOSE q \in coords : \A o \in coords :
            \/ d(q) < d(o)
            \/ d(q) = d(o) /\ (q[1] < o[1] \/ (q[1] = o[1] /\ q[2] <= o[2]))

\* ffe.py 1098-1103: the density at <<y, x>> of the slice.
SliceDensity(sl, y, x) ==
    IF SliceValue(sl, y, x) # 0
    THEN TruncDiv(SliceBoxSum(sl, y, x, tdensityrad), (2 * tdensityrad + 1) * (2 * tdensityrad + 1))
    ELSE 0

\* int(s * gradient) for the component d of the unit vector of <<d, other>>.
StepComponent(d, other) ==
    LET k == SetMax({m \in 0..gradient : m * m * (d * d + other * other) <= gradient * gradient * d * d})
    IN  IF d < 0 THEN -k ELSE k

\* The values (int(slope[0]*gradient), int(slope[1]*gradient)) can take:
\* exact while the slope is the flow or a normalised difference of points,
\* any truncated vector of length <= gradient once the attraction of the
\* inlets (ffe.py 1121-1139) has bent it.
StepChoices ==
    IF ti > 0 /\ maxattraction # 0 /\ startpoints # <<>>
    THEN {o \in (-gradient..gradient) \X (-gradient..gradient) :
            o[1] * o[1] + o[2] * o[2] <= gradient * gradient}
    ELSE {<<StepComponent(slope[1], slope[2]), StepComponent(slope[2], slope[1])>>}

\* ffe.py 1150-1156: dist <= pt[2]/2.0 + gradient
InletInRange(target, pt) ==
    4 * ((target[1] - pt[1]) * (target[1] - pt[1]) + (target[2] - pt[2]) * (target[2] - pt[2]))
        <= (pt[3] + 2 * gradient) * (pt[3] + 2 * gradient)

\* Mutant: only the first inlet in range is appended.
InletsAppendedFirstOnly(target) ==
    LET hit == SelectSeq(startpoints, LAMBDA pt : InletInRange(target, pt))
    IN  IF hit = <<>> THEN <<>> ELSE <<hit[1]>>

\* ffe.py 1150-1156: every inlet in range is appended, in list order.
InletsAppended(target) == SelectSeq(startpoints, LAMBDA pt : InletInRange(target, pt))

\* ffe.py 1062-1144: one pass of the loop body up to the new target point,
\* for the truncated step off.  kind is "break" (the loop is left), "raise"
\* (an IndexError or ValueError leaves the function) or "point".
StepOutcome(off) ==
    LET half     == gradient \div 2
        last     == Last(trajectory)
        target0  == <<last[1] + off[1], last[2] + off[2]>>
        topleft0 == <<target0[1] - half, target0[2] - half>>
        slice0   == ImageSlice(topleft0)
        nz       == {c \in SliceCoords(slice0) : SliceValue(slice0, c[1], c[2]) # 0}
        centred  == SliceValue(slice0, half, half) # 0
        moved    == NearestTo(nz, half)
        target1  == IF centred THEN target0
                    ELSE <<topleft0[1] + moved[2], topleft0[2] + moved[1]>>
        topleft1 == <<target1[1] - half, target1[2] - half>>
        slice1   == ImageSlice(topleft1)
        size     == gradient - 2 * tdensityrad
        dcoords  == (0..(size - 1)) \X (0..(size - 1))
        dmax     == SetMax({SliceDensity(slice1, c[1], c[2]) : c \in dcoords})
        best     == NearestTo({c \in dcoords : SliceDensity(slice1, c[1], c[2]) = dmax}, half)
    IN  IF SliceSize(slice0) = 0 \/ nz = {}
        THEN [kind |-> "break", target |-> <<0, 0>>]
        ELSE IF half >= Len(slice0.rows) \/ half >= Len(slice0.cols)
        THEN [kind |-> "raise", target |-> <<0, 0>>]
        ELSE IF size <= 0 \/ size > Len(slice1.rows) \/ size > Len(slice1.cols)
        THEN [kind |-> "raise", target |-> <<0, 0>>]
        ELSE [kind |-> "point",
              target |-> <<topleft1[1] + tdensityrad + best[2], topleft1[2] + tdensityrad + best[1]>>]

\* Mutant: a trajectory of the endpoint alone is kept as well.
ClosedTrajectoriesKeepsAll(list, trac) == Append(list, Reverse(trac))

\* ffe.py 1163-1166: a trajectory of at least two points is kept, reversed.
ClosedTrajectories(list, trac) ==
    IF Len(trac) > 1 THEN Append(list, Reverse(trac)) ELSE list

TracerIdle ==
    /\ timage = <<>> /\ startpoints = <<>> /\ endpoints = <<>> /\ flow = <<0, 0>>
    /\ maxiteration = 0 /\ gradientfactor = 0 /\ tdensityrad = 0 /\ maxattraction = 0
    /\ trajectories = <<>> /\ trajectory = <<>> /\ slope = <<0, 0>>
    /\ gradient = 0 /\ run = FALSE /\ ti = 0 /\ ek = 0
    /\ tpc = "idle"

TracerStart ==
    /\ \E lit \in SUBSET StreamPixels :
          timage = [p \in TracerPixels |-> IF p \in lit THEN Bright ELSE 0]
    /\ startpoints \in {<<>>, <<Inlet1>>, <<Inlet1, Inlet2>>}
    /\ endpoints \in {<<>>, <<Endpoint1>>, <<Endpoint2>>, <<Endpoint1, Endpoint2>>}
    \* straight and diagonal flow without attraction, short and long; the
    \* attraction of the inlets on a short search
    /\ \E pull \in ({<<-1, 0>>, <<-1, -1>>} \X {0} \X {1, MaxIteration}) \cup {<<<<-1, 0>>, 1, 1>>} :
          flow = pull[1] /\ maxattraction = pull[2] /\ maxiteration = pull[3]
    /\ gradientfactor \in {1, 4, 7}
    /\ tdensityrad \in {0, 1}
    /\ trajectories = <<>> /\ trajectory = <<>> /\ slope = <<0, 0>>
    /\ gradient = 0 /\ run = FALSE /\ ti = 0 /\ ek = 0
    /\ tpc = "call"

tracerInputs == <<timage, startpoints, endpoints, flow, maxiteration, gradientfactor, tdensityrad, maxattraction>>

\* ffe.py 1000-1039: the checks of the arguments passed, the result is empty.
TracerBegin ==
    /\ tpc = "call"
    /\ trajectories' = <<>>
    /\ ek' = 1
    /\ tpc' = "endpoints"
    /\ UNCHANGED <<trajectory, slope, gradient, run, ti>>
    /\ UNCHANGED tracerInputs
    /\ UNCHANGED exceptTracer

\* ffe.py 1045-1060: the next endpoint seeds a trajectory.
TracerBeginEndpoint ==
    /\ tpc = "endpoints"
    /\ ek <= Len(endpoints)
    /\ trajectory' = <<endpoints[ek]>>
    /\ run' = TRUE
    /\ ti' = 0
    /\ slope' = flow
    /\ gradient' = LET g == TruncDiv(gradientfactor * (IF TracerWidth >= TracerHeight THEN TracerWidth ELSE TracerHeight), 10)
                   IN  IF g >= 2 THEN g ELSE 2
    /\ tpc' = "loop"
    /\ UNCHANGED <<trajectories, ek>>
    /\ UNCHANGED tracerInputs
    /\ UNCHANGED exceptTracer

\* ffe.py 1062-1161: one pass of the while loop.
TracerStep ==
    /\ tpc = "loop"
    /\ run
    /\ \E off \in StepChoices : \E out \in {StepOutcome(off)} :
              CASE out.kind = "break" ->
                     /\ tpc' = "after"
                     /\ UNCHANGED <<trajectory, slope, run, ti>>
                [] out.kind = "raise" ->
                     /\ tpc' = "raised"
                     /\ UNCHANGED <<trajectory, slope, run, ti>>
                [] OTHER ->
                     /\ slope' = <<out.target[1] - Last(trajectory)[1], out.target[2] - Last(trajectory)[2]>>
                     /\ trajectory' = Append(trajectory, <<out.target[1], out.target[2], 10>>)
                                         \o InletsAppended(out.target)
                     /\ ti' = ti + 1
                     /\ run' = (Len(trajectory') = Len(trajectory) + 1 /\ ~(ti' > maxiteration))
                     /\ tpc' = IF run' THEN "loop" ELSE "after"
    /\ UNCHANGED <<trajectories, gradient, ek>>
    /\ UNCHANGED tracerInputs
    /\ UNCHANGED exceptTracer

\* ffe.py 1163-1166: the loop is left, the trajectory is closed.
TracerFinishEndpoint ==
    /\ tpc = "after"
    /\ trajectories' = ClosedTrajectories(trajectories, trajectory)
    /\ ek' = ek + 1
    /\ tpc' = "endpoints"
    /\ UNCHANGED <<trajectory, slope, gradient, run, ti>>
    /\ UNCHANGED tracerInputs
    /\ UNCHANGED exceptTracer

\* ffe.py 1168-1176
TracerReturn ==
    /\ tpc = "endpoints"
    /\ ek > Len(endpoints)
    /\ tpc' = "done"
    /\ UNCHANGED <<trajectories, trajectory, slope, gradient, run, ti, ek>>
    /\ UNCHANGED tracerInputs
    /\ UNCHANGED exceptTracer

TracerNext ==
    TracerBegin \/ TracerBeginEndpoint \/ TracerStep \/ TracerFinishEndpoint \/ TracerReturn

(***************************************************************************)
(* calculateTrajectoriesOverlap, calculateTrajectoriesDistanceHausdorff    *)
(* and getSkinOfTrajectory called on their own, on the traces of the merge *)
(* and on the same traces one row lower, and on the empty list.            *)
(***************************************************************************)
Lowered(trac) == [i \in 1..Len(trac) |-> <<trac[i][1], trac[i][2] + 1, trac[i][3]>>]

MetricPool == {<<>>} \cup TracPool \cup {Lowered(trac) : trac \in TracPool}

MetricsIdle ==
    /\ tracA = <<>> /\ tracB = <<>>
    /\ overlap = <<0, 1>> /\ hausdorff = 0 /\ skinA = <<>>
    /\ mpc = "idle"

MetricsStart ==
    /\ tracA \in MetricPool
    /\ tracB \in MetricPool
    /\ overlap = <<0, 1>> /\ hausdorff = 0 /\ skinA = <<>>
    /\ mpc = "call"

\* ffe.py 1284-1365
MetricsOverlap ==
    /\ mpc = "call"
    /\ overlap' = calculateTrajectoriesOverlap(tracA, tracB)
    /\ mpc' = "overlap"
    /\ UNCHANGED <<tracA, tracB, hausdorff, skinA>>
    /\ UNCHANGED exceptMetrics

\* ffe.py 1370-1431
MetricsHausdorff ==
    /\ mpc = "call"
    /\ hausdorff' = calculateTrajectoriesSqDistanceHausdorff(tracA, tracB)
    /\ mpc' = "hausdorff"
    /\ UNCHANGED <<tracA, tracB, overlap, skinA>>
    /\ UNCHANGED exceptMetrics

\* ffe.py 1209-1280
MetricsSkin ==
    /\ mpc = "call"
    /\ skinA' = getSkinOfTrajectory(tracA)
    /\ mpc' = "skin"
    /\ UNCHANGED <<tracA, tracB, overlap, hausdorff>>
    /\ UNCHANGED exceptMetrics

MetricsNext == MetricsOverlap \/ MetricsHausdorff \/ MetricsSkin

(***************************************************************************)
(* getYandWofTrajectory and getResolutionOfTrajectories                    *)
(*                                                                         *)
(* The trajectories are horizontal traces of increasing x.  The value of a *)
(* spline is not computed: an interpolating spline takes the value of the  *)
(* knot at a knot and some value near the data elsewhere, a smoothing      *)
(* spline some value near the data everywhere; "near" is one pixel here.   *)
(* The resolution is kept as the fraction <<numerator, denominator>>.      *)
(***************************************************************************)
MaxX == 4

\* The traces over a set of x-coordinates, in increasing order of x.
RECURSIVE TraceOver(_)
TraceOver(xs) ==
    IF xs = {} THEN <<>>
    ELSE TraceOver(xs \ {SetMax(xs)}) \o <<Pt3(SetMax(xs))>>

\* No point at all, too few points for a cubic spline, or enough of them.
QueryPool == {TraceOver(xs) : xs \in {S \in SUBSET (0..MaxX) : Cardinality(S) = 0 \/ Cardinality(S) >= 3}}

\* ffe.py 2099: dict(list of (x, y)): the last y given for every x.
DictOf(pairs) ==
    [k \in {pairs[i][1] : i \in 1..Len(pairs)} |->
        pairs[SetMax({i \in 1..Len(pairs) : pairs[i][1] = k})][2]]

\* ffe.py 2081, 2103, 2153: min(xs) <= x <= max(xs)
InsideRange(xs, at) == SetMin(xs) <= at /\ at <= SetMax(xs)

\* The values InterpolatedUnivariateSpline(xs, ys, ext=3)(x) can take.
InterpolatedValues(trac, at) ==
    LET xs   == {trac[i][1] : i \in 1..Len(trac)}
        near == IF at <= SetMin(xs) THEN SetMin(xs)
                ELSE IF at >= SetMax(xs) THEN SetMax(xs) ELSE at
        knot == {trac[i][2] : i \in {j \in 1..Len(trac) : trac[j][1] = near}}
        ys   == {trac[i][2] : i \in 1..Len(trac)}
    IN  IF knot # {} THEN knot ELSE (SetMin(ys) - 1)..(SetMax(ys) + 1)

\* The values UnivariateSpline(keys, values, ext=3)(x) can take.
SmoothedValues(side) ==
    LET ys == {side[k] : k \in DOMAIN side}
    IN  (SetMin(ys) - 1)..(SetMax(ys) + 1)

\* A tuple (y, w) returned; warned tells that the fit emitted a warning.
Returned(yv, wv, warn) == [kind |-> "value", y |-> yv, w |-> wv, warned |-> warn]

\* ffe.py 2099: skinleft = dict(skin[:halflen-1])
SkinLeft(trac) ==
    LET tskin == getSkinOfTrajectory(trac)
    IN  DictOf(SubSeq(tskin, 1, Len(tskin) \div 2 - 1))

\* ffe.py 2100: skinright = dict((skin[halflen:])[::-1])
SkinRight(trac) ==
    LET tskin == getSkinOfTrajectory(trac)
    IN  DictOf(Reverse(SubSeq(tskin, Len(tskin) \div 2 + 1, Len(tskin))))

\* Mutant: outside of the skin the centerline value is not returned.
UnfittedAtZero(ys) == {Returned(0, -1, FALSE)}

\* ffe.py 2103-2105: return (y, -1)
Unfitted(ys) == {Returned(yv, -1, FALSE) : yv \in ys}

\* ffe.py 2067-2132: the outcomes of getYandWofTrajectory(trajectory, x):
\* a tuple returned, or the exception of UnivariateSpline, which needs more
\* than 3 points.
YandWOutcomes(trac, at) ==
    LET xs        == {trac[i][1] : i \in 1..Len(trac)}
        ys        == InterpolatedValues(trac, at)
        tskin     == getSkinOfTrajectory(trac)
        skinleft  == SkinLeft(trac)
        skinright == SkinRight(trac)
    IN  IF Len(trac) < 4 THEN {Returned(0, -1, FALSE)}
        ELSE IF ~InsideRange(xs, at) THEN {Returned(0, -1, FALSE)}
        ELSE IF Len(tskin) % 2 # 0 THEN {Returned(0, -1, FALSE)}
        ELSE IF ~InsideRange(DOMAIN skinleft, at) \/ ~InsideRange(DOMAIN skinright, at)
        THEN Unfitted(ys)
        ELSE IF Cardinality(DOMAIN skinleft) < 4 \/ Cardinality(DOMAIN skinright) < 4
        THEN {[kind |-> "raise", y |-> 0, w |-> -1, warned |-> FALSE]}
        ELSE {Returned(yv, -1, TRUE) : yv \in ys}
             \cup {Returned(yv, -1, FALSE) : yv \in ys}
             \cup {Returned(yv, Abs(l - r), FALSE) :
                     yv \in ys, l \in SmoothedValues(skinleft), r \in SmoothedValues(skinright)}

QueryIdle ==
    /\ trajectory1 = <<>> /\ trajectory2 = <<>> /\ qx = 0
    /\ yw1 = <<>> /\ yw2 = <<>> /\ res = <<0, 1>>
    /\ qpc = "idle"

QueryStart ==
    /\ trajectory1 \in QueryPool
    /\ trajectory2 \in {Lowered(TraceOver(0..m)) : m \in {-1, 2, 3, MaxX}}
    /\ qx \in -1..(MaxX + 1)
    /\ yw1 = <<>> /\ yw2 = <<>> /\ res = <<0, 1>>
    /\ qpc = "call"

\* ffe.py 2136-2154: the x-range of both trajectories; min() of an empty
\* list raises ValueError.
QueryBegin ==
    /\ qpc = "call"
    /\ IF trajectory1 = <<>> \/ trajectory2 = <<>>
       THEN qpc' = "raised" /\ UNCHANGED res
       ELSE IF \/ ~InsideRange({trajectory1[i][1] : i \in 1..Len(trajectory1)}, qx)
               \/ ~InsideRange({trajectory2[i][1] : i \in 1..Len(trajectory2)}, qx)
       THEN res' = <<0, 1>> /\ qpc' = "done"
       ELSE qpc' = "first" /\ UNCHANGED res
    /\ UNCHANGED <<trajectory1, trajectory2, qx, yw1, yw2>>
    /\ UNCHANGED exceptQuery

\* ffe.py 2156-2157: Y1, W1 = getYandWofTrajectory(trajectory1, x)
QueryFirst ==
    /\ qpc = "first"
    /\ \E out \in YandWOutcomes(trajectory1, qx) :
          /\ yw1' = out
          /\ qpc' = IF out.kind = "raise" THEN "raised" ELSE "second"
    /\ UNCHANGED <<trajectory1, trajectory2, qx, yw2, res>>
    /\ UNCHANGED exceptQuery

\* ffe.py 2159-2160: Y2, W2 = getYandWofTrajectory(trajectory2, x)
QuerySecond ==
    /\ qpc = "second"
    /\ \E out \in YandWOutcomes(trajectory2, qx) :
          /\ yw2' = out
          /\ qpc' = IF out.kind = "raise" THEN "raised" ELSE "result"
    /\ UNCHANGED <<trajectory1, trajectory2, qx, yw1, res>>
    /\ UNCHANGED exceptQuery

\* ffe.py 2162-2173: abs(Y1-Y2) / (0.5 * (W1 + W2)), as a fraction.
Resolution(Y1, W1, Y2, W2) ==
    IF W1 = 0 /\ W2 = 0 THEN <<0, 1>>
    ELSE IF W1 < 0 \/ W2 < 0 THEN <<0, 1>>
    ELSE <<2 * Abs(Y1 - Y2), W1 + W2>>

QueryResult ==
    /\ qpc = "result"
    /\ res' = Resolution(yw1.y, yw1.w, yw2.y, yw2.w)
    /\ qpc' = "done"
    /\ UNCHANGED <<trajectory1, trajectory2, qx, yw1, yw2>>
    /\ UNCHANGED exceptQuery

\* ffe.py 2067-2132: getYandWofTrajectory(trajectory1, x) called by itself.
QueryYandW ==
    /\ qpc = "call"
    /\ \E out \in YandWOutcomes(trajectory1, qx) :
          /\ yw1' = out
          /\ qpc' = IF out.kind = "raise" THEN "yandw raised" ELSE "yandw"
    /\ UNCHANGED <<trajectory1, trajectory2, qx, yw2, res>>
    /\ UNCHANGED exceptQuery

QueryNext == QueryBegin \/ QueryFirst \/ QuerySecond \/ QueryResult \/ QueryYandW

(***************************************************************************)
(* getInverseFlowDirection                                                 *)
(*                                                                         *)
(* markers is the list the caller passes, the object stored under          *)
(* "Flowmarkers" in ffedata; flowmarkers keeps the value that was read     *)
(* from the file.  The normalized vector is kept as <<dx, dy, norm^2>>.    *)
(***************************************************************************)
MaxMarker == 2

MarkerPoints == {<<mx, my>> : mx \in 0..MaxMarker, my \in 0..MaxMarker}

\* A few 3x3 transformation matrices: identity, shift, quarter turn, scaling.
Matrices ==
    { <<<<1, 0, 0>>, <<0, 1, 0>>, <<0, 0, 1>>>>,
      <<<<1, 0, -1>>, <<0, 1, -1>>, <<0, 0, 1>>>>,
      <<<<0, -1, MaxMarker>>, <<1, 0, 0>>, <<0, 0, 1>>>>,
      <<<<2, 0, 0>>, <<0, 2, 0>>, <<0, 0, 1>>>> }

\* transmatrix.dot(v) for a vector of three components
Dot(m, v) == [i \in 1..3 |-> m[i][1] * v[1] + m[i][2] * v[2] + m[i][3] * v[3]]

FlowIdle ==
    /\ markers = <<>> /\ flowmarkers = <<>> /\ transmatrix = <<>>
    /\ inverseflow = <<>> /\ fpc = "idle"

FlowStart ==
    /\ markers \in {<<a>> : a \in MarkerPoints} \cup (MarkerPoints \X MarkerPoints)
    /\ flowmarkers = markers
    /\ transmatrix \in Matrices
    /\ inverseflow = <<>>
    /\ fpc = "call"

\* ffe.py 823-834: the checks of the arguments and the default direction
FlowBegin ==
    /\ fpc = "call"
    /\ IF Len(markers) # 2
       THEN inverseflow' = "None" /\ fpc' = "done"
       ELSE inverseflow' = <<-1, 0, 1>> /\ fpc' = "extend"
    /\ UNCHANGED <<markers, flowmarkers, transmatrix>>
    /\ UNCHANGED exceptFlow

\* ffe.py 837-838: markers[i] = np.append(np.array(markers[i]), [1])
Extended(list) == [i \in 1..Len(list) |-> Append(list[i], 1)]

FlowExtend ==
    /\ fpc = "extend"
    /\ markers' = Extended(markers)
    /\ fpc' = "transform"
    /\ UNCHANGED <<flowmarkers, transmatrix, inverseflow>>
    /\ UNCHANGED exceptFlow

\* ffe.py 841-842: markers[i] = transmatrix.dot(markers[i])
FlowTransform ==
    /\ fpc = "transform"
    /\ markers' = [i \in 1..Len(markers) |-> Dot(transmatrix, markers[i])]
    /\ fpc' = "vector"
    /\ UNCHANGED <<flowmarkers, transmatrix, inverseflow>>
    /\ UNCHANGED exceptFlow

\* ffe.py 845-856: the difference vector, normalized unless its norm is 0
FlowReturn ==
    /\ fpc = "vector"
    /\ LET dx == markers[1][1] - markers[2][1]
           dy == markers[1][2] - markers[2][2]
       IN  inverseflow' = IF dx * dx + dy * dy # 0
                          THEN <<dx, dy, dx * dx + dy * dy>>
                          ELSE inverseflow
    /\ fpc' = "done"
    /\ UNCHANGED <<markers, flowmarkers, transmatrix>>
    /\ UNCHANGED exceptFlow

FlowNext == FlowBegin \/ FlowExtend \/ FlowTransform \/ FlowReturn

(***************************************************************************)
(* findWidthOfTrajectory                                                   *)
(*                                                                         *)
(* The trajectories run along one row of the image, forwards, backwards or *)
(* not at all, so that every slope is a unit vector along x or the zero    *)
(* vector and every cross-section is a column.  The pixels of the          *)
(* cross-section are computed as the code computes them; the width that    *)
(* the spline gives for a cross-section of more than 4 values is not: it   *)
(* is some value between 0 and WidthFound.                                 *)
(***************************************************************************)
MaxHeight == 8
WidthColumns == 3
WidthFound == 2

\* The images: WidthColumns wide, 1 or MaxHeight high, some rows bright.
WidthImages ==
    {[shape |-> <<h, WidthColumns>>,
      bright |-> {<<px, py>> \in (0..(WidthColumns - 1)) \X rows : py < h}] :
        h \in {1, MaxHeight}, rows \in {{}, 1..3, 1..4}}

\* One row of the image, every step along x one of -1, 0, 1, 2.
WidthPool ==
    {t \in SeqsUpTo({Pt3(px) : px \in 0..(WidthColumns - 1)}, 3) : Len(t) >= 1}

Sgn(v) == IF v > 0 THEN 1 ELSE IF v < 0 THEN -1 ELSE 0

\* ffe.py 1803-1805, 1816-1818: v / np.linalg.norm(v) unless the norm is 0,
\* for a vector along one axis.
Normalized(v) == <<Sgn(v[1]), Sgn(v[2])>>

\* ffe.py 1788-1796: densityimage[y, x]
Density(img, rad, px, py) ==
    LET h == img.shape[1]
        w == img.shape[2]
    IN  IF /\ rad <= px /\ px < w - rad
           /\ rad <= py /\ py < h - rad
           /\ <<px, py>> \in img.bright
        THEN Cardinality({q \in img.bright :
                            /\ px - rad <= q[1] /\ q[1] < px + rad
                            /\ py - rad <= q[2] /\ q[2] < py + rad})
        ELSE 0

\* ffe.py 1821-1828: the skin-vector of two slopes whose cross product is 0
SkinVector(slp, last) == <<0 - last[2], last[1]>>

\* ffe.py 1831-1849: the values along the line through point p, as a
\* sequence; np.linspace(...).astype(np.int) truncates towards zero.
CrossSection(img, rad, p, skinvector) ==
    LET maxwidth  == img.shape[1] \div 2
        w1        == <<p[1] + maxwidth * skinvector[1], p[2] + maxwidth * skinvector[2]>>
        w2        == <<p[1] - maxwidth * skinvector[1], p[2] - maxwidth * skinvector[2]>>
        wdistance == IF skinvector = <<0, 0>> THEN 0 ELSE 2 * maxwidth
        Along(c, k) == IF wdistance = 1 THEN w1[c]
                       ELSE TruncDiv(w1[c] * (wdistance - 1) + k * (w2[c] - w1[c]), wdistance - 1)
    IN  [k \in 1..wdistance |->
            LET px == Along(1, k - 1)
                py == Along(2, k - 1)
            IN  IF 0 <= px /\ px < img.shape[2] /\ 0 <= py /\ py < img.shape[1]
                THEN Density(img, rad, px, py)
                ELSE 0]

\* np.argwhere(values == 0)[0][0]: the first index (from 0) of a zero, -1
\* standing for the IndexError when there is none.
FirstZero(values) ==
    LET zeros == {k \in 1..Len(values) : values[k] = 0}
    IN  IF zeros = {} THEN -1 ELSE SetMin(zeros) - 1

\* ffe.py 1862-1871: the two sides of the cross-section, wvalues[midindex:0:-1]
\* and wvalues[midindex:].
SideLeft(wvalues, midindex) ==
    LET from == IF midindex >= Len(wvalues) THEN Len(wvalues) - 1 ELSE midindex
    IN  [k \in 1..(IF from >= 1 THEN from ELSE 0) |-> wvalues[from - k + 2]]

SideRight(wvalues, midindex) ==
    SubSeq(wvalues, midindex + 1, Len(wvalues))

\* ffe.py 1896-1910: the widths the spline can give for a cross-section cut
\* down to length values.
StreamWidths(length) == IF length > 4 THEN 0..WidthFound ELSE {0}

Outcome(k, sw) == [kind |-> k, streamwidth |-> sw]

\* ffe.py 1830-1910: what the loop does with point p: "skip" it, "raise"
\* IndexError, or give it a width.
PointOutcomes(img, rad, p, skinvector) ==
    LET wvalues    == CrossSection(img, rad, p, skinvector)
        midindex   == img.shape[1] \div 2
        indexleft  == FirstZero(SideLeft(wvalues, midindex))
        indexright == FirstZero(SideRight(wvalues, midindex))
    IN  IF Len(wvalues) = 0 THEN {Outcome("skip", 0)}
        ELSE IF indexleft < 0 \/ indexright < 0 THEN {Outcome("raise", 0)}
        ELSE {Outcome("width", sw) : sw \in StreamWidths(indexleft + indexright + 1)}

\* Mutant: a point of width 0 takes the width of the point before it.
RECURSIVE FixZeroWidthsFromLeft(_, _)
FixZeroWidthsFromLeft(list, i) ==
    IF Len(list) <= 2 \/ i >= Len(list) THEN list
    ELSE IF i > 1 /\ list[i][3] = 0 /\ list[i - 1][3] # 0 /\ list[i + 1][3] # 0
    THEN FixZeroWidthsFromLeft([list EXCEPT ![i] = <<list[i][1], list[i][2], list[i - 1][3]>>],
                               i + 1)
    ELSE FixZeroWidthsFromLeft(list, i + 1)

\* ffe.py 1961-1974: the attempt to fix the points of width 0, in order
RECURSIVE FixZeroWidths(_, _)
FixZeroWidths(list, i) ==
    IF Len(list) <= 2 \/ i >= Len(list) THEN list
    ELSE IF i > 1 /\ list[i][3] = 0 /\ list[i - 1][3] # 0 /\ list[i + 1][3] # 0
    THEN FixZeroWidths([list EXCEPT ![i] =
                          <<list[i][1], list[i][2], (list[i - 1][3] + list[i + 1][3]) \div 2>>], i + 1)
    ELSE FixZeroWidths(list, i + 1)

WidthIdle ==
    /\ wimage = <<>> /\ wtrajectory = <<>> /\ wdensityrad = 0
    /\ newtrajectory = <<>> /\ lastslope = <<0, 0>> /\ wi = 0
    /\ wpc = "idle"

WidthStart ==
    /\ wimage \in WidthImages
    /\ wtrajectory \in WidthPool
    /\ wdensityrad \in {0, 1}
    /\ newtrajectory = <<>> /\ lastslope = <<0, 0>> /\ wi = 0
    /\ wpc = "call"

\* ffe.py 1768-1805: the checks of the arguments and the first slope
WidthBegin ==
    /\ wpc = "call"
    /\ IF Len(wtrajectory) < 2
       THEN wpc' = "done" /\ UNCHANGED lastslope
       ELSE /\ lastslope' = Normalized(<<wtrajectory[2][1] - wtrajectory[1][1],
                                         wtrajectory[2][2] - wtrajectory[1][2]>>)
            /\ wpc' = "loop"
    /\ UNCHANGED <<wimage, wtrajectory, wdensityrad, newtrajectory, wi>>
    /\ UNCHANGED exceptWidth

\* ffe.py 1808-1958: one pass of the loop, for trajectory[i]
WidthPoint ==
    /\ wpc = "loop"
    /\ wi < Len(wtrajectory)
    /\ LET p     == wtrajectory[wi + 1]
           nextslope == IF wi < Len(wtrajectory) - 1
                    THEN Normalized(<<wtrajectory[wi + 2][1] - p[1], wtrajectory[wi + 2][2] - p[2]>>)
                    ELSE lastslope
       IN  \E out \in PointOutcomes(wimage, wdensityrad, p, SkinVector(nextslope, lastslope)) :
              CASE out.kind = "skip" ->
                     /\ wi' = wi + 1
                     /\ UNCHANGED <<newtrajectory, lastslope, wpc>>
                [] out.kind = "raise" ->
                     /\ wpc' = "raised"
                     /\ UNCHANGED <<newtrajectory, lastslope, wi>>
                [] OTHER ->
                     /\ newtrajectory' = Append(newtrajectory, <<p[1], p[2], out.streamwidth>>)
                     /\ lastslope' = nextslope
                     /\ wi' = wi + 1
                     /\ UNCHANGED wpc
    /\ UNCHANGED <<wimage, wtrajectory, wdensityrad>>
    /\ UNCHANGED exceptWidth

\* ffe.py 1960-1977: the zero-width fix and the return
WidthReturn ==
    /\ wpc = "loop"
    /\ wi = Len(wtrajectory)
    /\ newtrajectory' = FixZeroWidths(newtrajectory, 1)
    /\ wpc' = "done"
    /\ UNCHANGED <<wimage, wtrajectory, wdensityrad, lastslope, wi>>
    /\ UNCHANGED exceptWidth

WidthNext == WidthBegin \/ WidthPoint \/ WidthReturn

(***************************************************************************)
(* findtrajectories.py, steps 6 and 7: the trajectories of every channel   *)
(* get their widths, are merged into finaltrajectories, lose their         *)
(* endpoints, are filtered and are saved.                                  *)
(*                                                                         *)
(* channels holds what the tracer returns for the channels still to come:  *)
(* lists of trajectories of two points or more (ffe.py 1164-1167).  The    *)
(* image is left out: findWidthOfTrajectory keeps the points that its loop *)
(* does not skip and gives them one of two widths.  The options of the     *)
(* merge are the variables maxoverlap, useHausdorff and hausdorffbias.     *)
(***************************************************************************)
\* What a tracer returns for one channel: trajectories along one row, one
\* of them with its first point repeated.
StorePool ==
    {t \in TracPool : Len(t) >= 2} \cup {<<Pt3(0), Pt3(0), Pt3(3)>>}

ChannelResults == {<<>>} \cup {<<t>> : t \in StorePool} \cup (StorePool \X StorePool)

\* ffe.py 1808-1958: the points of the trajectory that the loop of
\* findWidthOfTrajectory appends, from point i on, with width w.
RECURSIVE MeasuredFrom(_, _, _, _)
MeasuredFrom(trac, i, last, w) ==
    IF i > Len(trac) THEN <<>>
    ELSE LET nextslope == IF i < Len(trac)
                          THEN Normalized(<<trac[i + 1][1] - trac[i][1], trac[i + 1][2] - trac[i][2]>>)
                          ELSE last
         IN  IF SkinVector(nextslope, last) = <<0, 0>>
             THEN MeasuredFrom(trac, i + 1, last, w)
             ELSE <<<<trac[i][1], trac[i][2], w>>>> \o MeasuredFrom(trac, i + 1, nextslope, w)

\* ffe.py 1761-1977: findWidthOfTrajectory(channelimage, trajectory, densityrad)
\* on an image of two rows or more, every point measured as w.
Measured(trac, w) ==
    IF Len(trac) < 2 THEN <<>>
    ELSE MeasuredFrom(trac, 1,
            Normalized(<<trac[2][1] - trac[1][1], trac[2][2] - trac[1][2]>>), w)

\* ffe.py 1463-1497: the while loop of combineTrajectories
RECURSIVE CombineLoop(_, _)
CombineLoop(working, final) ==
    IF working = <<>> THEN final
    ELSE CombineLoop(Front(working), MergeItem(Last(working), final))

\* ffe.py 1435-1497
combineTrajectories(list1, list2) == CombineLoop(list1 \o list2, <<>>)

StoreIdle ==
    /\ channels = <<>> /\ finaltrajectories = <<>>
    /\ noendpoints = FALSE /\ minpoints = 0
    /\ saved = <<>> /\ spc = "idle"

\* The merge is not running by itself; its options are those of the script.
StoreOptions ==
    /\ traclist1 = <<>> /\ traclist2 = <<>>
    /\ \/ useHausdorff = TRUE /\ hausdorffbias = 1 /\ maxoverlap = 3
       \/ useHausdorff = FALSE /\ hausdorffbias = 10 /\ maxoverlap = 3
    /\ workinglist = <<>> /\ finallist = <<>>
    /\ cpc = "idle" /\ cevent = "none"

StoreStart ==
    /\ channels \in {<<>>} \cup {<<c>> : c \in ChannelResults}
                     \cup {<<c, <<t>>>> : c \in ChannelResults, t \in StorePool}
    /\ finaltrajectories = <<>>
    /\ noendpoints \in BOOLEAN
    /\ minpoints \in {0, MaxList}
    /\ saved = <<>>
    /\ spc = "channels"

\* findtrajectories.py 400-445: one channel
StoreChannel ==
    /\ spc = "channels"
    /\ channels # <<>>
    /\ \E w \in {0, TracW} :
          LET measured == [k \in 1..Len(Head(channels)) |-> Measured(Head(channels)[k], w)]
          IN  finaltrajectories' =
                 IF Len(measured) = 0 THEN finaltrajectories
                 ELSE combineTrajectories(finaltrajectories, measured)
    /\ channels' = Tail(channels)
    /\ UNCHANGED <<noendpoints, minpoints, saved, spc>>
    /\ UNCHANGED exceptStore

\* findtrajectories.py 450-454: del finaltrajectories[i][-1], which raises
\* IndexError for an empty trajectory
StoreRemoveEndpoints ==
    /\ spc = "channels"
    /\ channels = <<>>
    /\ IF ~noendpoints
       THEN spc' = "filter" /\ UNCHANGED finaltrajectories
       ELSE IF \E i \in 1..Len(finaltrajectories) : finaltrajectories[i] = <<>>
       THEN spc' = "raised" /\ UNCHANGED finaltrajectories
       ELSE /\ finaltrajectories' =
                 [i \in 1..Len(finaltrajectories) |-> Front(finaltrajectories[i])]
            /\ spc' = "filter"
    /\ UNCHANGED <<channels, noendpoints, minpoints, saved>>
    /\ UNCHANGED exceptStore

\* findtrajectories.py 457-473: the trajectories of at least minpoints points
Filtered(list, least) ==
    IF least > 0 THEN SelectSeq(list, LAMBDA t : Len(t) >= least) ELSE list

StoreFilter ==
    /\ spc = "filter"
    /\ finaltrajectories' = Filtered(finaltrajectories, minpoints)
    /\ spc' = "save"
    /\ UNCHANGED <<channels, noendpoints, minpoints, saved>>
    /\ UNCHANGED exceptStore

\* findtrajectories.py 503-513: saveinfo.update({"Trajectories": finaltrajectories})
StoreSave ==
    /\ spc = "save"
    /\ saved' = finaltrajectories
    /\ spc' = "saved"
    /\ UNCHANGED <<channels, finaltrajectories, noendpoints, minpoints>>
    /\ UNCHANGED exceptStore

StoreNext == StoreChannel \/ StoreRemoveEndpoints \/ StoreFilter \/ StoreSave

(***************************************************************************)
(* getTrajectoriesFromImageDijkstra                                        *)
(*                                                                         *)
(* The loop over the (endpoint, startpoint) pairs; every pair is one call  *)
(* of findPathOnImage, which runs as the actions of that function on the   *)
(* variables image, startpoint, endpoint, ... above.                       *)
(***************************************************************************)
DistanceSquared(p, q) == (p[1] - q[1]) * (p[1] - q[1]) + (p[2] - q[2]) * (p[2] - q[2])

\* ffe.py 1729-1735: the pixels with intensity above the bias, sorted by
\* distance to the inlet.  list.sort is stable, so pixels at the same
\* distance keep the row-by-row order of np.where; only points[0] is read.
NearestAbove(img, b, inlet) ==
    LET above == {p \in Pixels : img[p] > b}
    IN  CHOOSE p \in above :
            \A q \in above \ {p} :
                \/ DistanceSquared(p, inlet) < DistanceSquared(q, inlet)
                \/ /\ DistanceSquared(p, inlet) = DistanceSquared(q, inlet)
                   /\ RowMajorLess(p, q)

\* Mutant: the nearest pixel is taken however far away it is.
RelocatedAnywhere(inlet) ==
    IF image[<<inlet[1], inlet[2]>>] = 0
    THEN LET first == NearestAbove(image, bias, inlet)
         IN  <<first[1], first[2], inlet[3]>>
    ELSE inlet

\* ffe.py 1727-1741: an inlet on a pixel of zero intensity moves to the
\* nearest pixel above the bias if that is at most diameter * spvariancefactor
\* away.
Relocated(inlet) ==
    IF image[<<inlet[1], inlet[2]>>] = 0
    THEN LET first == NearestAbove(image, bias, inlet)
         IN  IF DistanceSquared(first, inlet)
                    <= (inlet[3] * spvariancefactor) * (inlet[3] * spvariancefactor)
             THEN <<first[1], first[2], inlet[3]>>
             ELSE inlet
    ELSE inlet

\* ffe.py 1753: the reversed path, every point with the placeholder width.
Reversed10(list) == [i \in 1..Len(list) |-> <<list[Len(list) + 1 - i][1],
                                              list[Len(list) + 1 - i][2], 10>>]

DijkstraIdle ==
    /\ dstartpoints = <<>> /\ dendpoints = <<>> /\ spvariancefactor = 0
    /\ dtrajectories = <<>> /\ de = 0 /\ ds = 0
    /\ dpc = "idle"

\* Inlets at two pixels of the first inner column, endpoints at two pixels
\* of the last inner column, one of them or both; images with up to MaxDark
\* dark pixels at and next to the inlets, and the black image.
ListsOf(a, b) == {<<a>>, <<b>>, <<a, b>>}

DijkstraStart ==
    /\ \E dark \in SubsetsUpTo({1, 2} \X {1, 2}, MaxDark) \cup {Pixels} :
          image = [p \in Pixels |-> IF p \in dark THEN 0 ELSE 1]
    /\ dstartpoints \in ListsOf(<<1, 1, 1>>, <<1, 2, 1>>)
    /\ dendpoints \in ListsOf(<<ImageWidth - 2, 1, 3>>, <<ImageWidth - 2, 2, 3>>)
    /\ bias \in {0, 3}
    /\ everyotherpoint \in 1..MaxEvery
    /\ densityrad = 1
    /\ spvariancefactor \in {0, 2}
    /\ startpoint = <<0, 0>> /\ endpoint = <<0, 0>>
    /\ densityimage = <<>> /\ maxintensity = 0 /\ points = <<>>
    /\ queue = <<>> /\ tracker = <<>>
    /\ path = <<>> /\ current = <<0, 0>> /\ n = 0
    /\ ppc = "idle"
    /\ dtrajectories = <<>> /\ de = 0 /\ ds = 0
    /\ dpc = "call"

\* ffe.py 1714-1719: a black image has no trajectories.
DijkstraBegin ==
    /\ dpc = "call"
    /\ dpc' = IF SetMax({image[p] : p \in Pixels}) = 0 THEN "done" ELSE "loop"
    /\ UNCHANGED <<dstartpoints, dendpoints, spvariancefactor, dtrajectories, de, ds>>
    /\ UNCHANGED pathVars
    /\ UNCHANGED exceptDijkstra

\* ffe.py 1722-1746: the next pair; findPathOnImage is called from the
\* endpoint to the (relocated) inlet.  points[0] of an empty list raises.
DijkstraCall ==
    /\ dpc = "loop"
    /\ de < Len(dendpoints)
    /\ LET inlet  == dstartpoints[ds + 1]
           outlet == dendpoints[de + 1]
       IN  IF image[<<inlet[1], inlet[2]>>] = 0 /\ {p \in Pixels : image[p] > bias} = {}
           THEN /\ dpc' = "raised"
                /\ UNCHANGED <<startpoint, endpoint, ppc>>
           ELSE /\ startpoint' = <<outlet[1], outlet[2]>>
                /\ endpoint' = <<Relocated(inlet)[1], Relocated(inlet)[2]>>
                /\ ppc' = "call"
                /\ dpc' = "path"
    /\ densityimage' = <<>> /\ maxintensity' = 0 /\ points' = <<>>
    /\ queue' = <<>> /\ tracker' = <<>>
    /\ path' = <<>> /\ current' = <<0, 0>> /\ n' = 0
    /\ UNCHANGED <<image, bias, everyotherpoint, densityrad>>
    /\ UNCHANGED <<dstartpoints, dendpoints, spvariancefactor, dtrajectories, de, ds>>
    /\ UNCHANGED exceptDijkstra

\* ffe.py 1750-1753 and the two loop headers: a path that is not empty is
\* appended, then the next startpoint or the next endpoint is due.
DijkstraAppend ==
    /\ dpc = "path"
    /\ ppc = "done"
    /\ dtrajectories' = IF Len(path) > 0 THEN Append(dtrajectories, Reversed10(path))
                        ELSE dtrajectories
    /\ IF ds + 1 < Len(dstartpoints)
       THEN ds' = ds + 1 /\ de' = de
       ELSE ds' = 0 /\ de' = de + 1
    /\ ppc' = "idle"
    /\ dpc' = "loop"
    /\ UNCHANGED <<image, startpoint, endpoint, bias, everyotherpoint, densityrad,
                   densityimage, maxintensity, points, queue, tracker, path, current, n>>
    /\ UNCHANGED <<dstartpoints, dendpoints, spvariancefactor>>
    /\ UNCHANGED exceptDijkstra

\* ffe.py 1756
DijkstraReturn ==
    /\ dpc = "loop"
    /\ de >= Len(dendpoints)
    /\ dpc' = "done"
    /\ UNCHANGED <<dstartpoints, dendpoints, spvariancefactor, dtrajectories, de, ds>>
    /\ UNCHANGED pathVars
    /\ UNCHANGED exceptDijkstra

DijkstraNext ==
    \/ DijkstraBegin
    \/ DijkstraCall
    \/ PathPrepare
    \/ PathSearchStep
    \/ PathSearchExhausted
    \/ PathBacktrackBegin
    \/ PathWalk
    \/ PathReturn
    \/ DijkstraAppend
    \/ DijkstraReturn

(***************************************************************************)
(* findMiddleOfConsecutiveNumbers                                          *)
(*                                                                         *)
(* itertools.groupby(enumerate(numbers), lambda (i, x): i - x) starts a    *)
(* new group whenever the key i - x changes from one element to the next.  *)
(***************************************************************************)
MaxNumbers == 3

MaxNumber == 3

\* The list of the docstring (ffe.py 862) and the result it promises (866).
DocNumbers == <<1, 1, 1, 4, 4, 4, 4, 4, 4, 4, 5, 6, 6, 6>>

DocResults == << <<1, 1>>, <<6, 3>>, <<10, 0>>, <<12, 1>> >>

\* ffe.py 878-880: the groups, as lists of the numbers; i is the 1-based
\* position of the element in turn, the last group of done is still open.
RECURSIVE GroupsFrom(_, _, _)
GroupsFrom(list, i, done) ==
    IF i > Len(list) THEN done
    ELSE IF i > 1 /\ (i - 1) - list[i] = (i - 2) - list[i - 1]
    THEN GroupsFrom(list, i + 1, [done EXCEPT ![Len(done)] = Append(@, list[i])])
    ELSE GroupsFrom(list, i + 1, Append(done, <<list[i]>>))

\* ffe.py 878-884: (group[int(len(group) / 2)], len(group)) for every group
findMiddleOfConsecutiveNumbers(list) ==
    LET groups == GroupsFrom(list, 1, <<>>)
    IN  [k \in 1..Len(groups) |-> <<groups[k][Len(groups[k]) \div 2 + 1], Len(groups[k])>>]

MiddleIdle == numbers = <<>> /\ results = <<>> /\ gpc = "idle"

MiddleStart ==
    /\ numbers \in SeqsUpTo(0..MaxNumber, MaxNumbers) \cup {DocNumbers}
    /\ results = <<>>
    /\ gpc = "call"

\* ffe.py 870-887
MiddleReturn ==
    /\ gpc = "call"
    /\ results' = findMiddleOfConsecutiveNumbers(numbers)
    /\ gpc' = "done"
    /\ UNCHANGED numbers
    /\ UNCHANGED exceptMiddle

MiddleNext == MiddleReturn

(***************************************************************************)
(* findEndpointsOfTrajectories                                             *)
(*                                                                         *)
(* The image is the set of its nonzero pixels <<x, y>>; threshpenetration  *)
(* and ordermin are kept in hundredths, with values whose products with    *)
(* the image size are exact in floating point or far from an integer.      *)
(***************************************************************************)
EndWidth == 4

EndHeight == 3

MaxLit == 2

\* ffe.py 926, 934: int(threshpenetration * width)
Penetration == TruncDiv(threshpenetration * EndWidth, 100)

\* ffe.py 918-926: the rows are written in the order of image.nonzero(), so
\* the rightmost nonzero pixel of a row decides: width - x if it lies in
\* the band, width if not; a row without a nonzero pixel keeps width.
Lines(img) ==
    [k \in 1..EndHeight |->
        LET xs == {p[1] : p \in {q \in img : q[2] = k - 1}}
        IN  IF xs = {} THEN EndWidth
            ELSE IF SetMax(xs) >= EndWidth - Penetration THEN EndWidth - SetMax(xs)
            ELSE EndWidth]

\* data.take(i, mode='clip')
Clipped(i) == IF i < 0 THEN 0 ELSE IF i > EndHeight - 1 THEN EndHeight - 1 ELSE i

\* ffe.py 929: scipy.signal.argrelextrema(lines, np.less_equal, order)[0],
\* the rows not above any row up to order rows away (indices clipped).
RelativeMinima(lines, order) ==
    {i \in 0..(EndHeight - 1) :
        \A shift \in 1..order :
            /\ lines[i + 1] <= lines[Clipped(i + shift) + 1]
            /\ lines[i + 1] <= lines[Clipped(i - shift) + 1]}

\* The elements of a set of integers as the ascending list.
Ascending(S) ==
    [k \in 1..Cardinality(S) |-> CHOOSE v \in S : Cardinality({o \in S : o < v}) = k - 1]

\* ffe.py 932-935: the minima within the penetration threshold
WithinLimit(lines, raw) == {i \in raw : lines[i + 1] <= Penetration}

\* ffe.py 938-943
Endpoints(img) ==
    LET lines  == Lines(img)
        order  == IF TruncDiv(ordermin * EndHeight, 100) >= 1
                  THEN TruncDiv(ordermin * EndHeight, 100) ELSE 1
        groups == findMiddleOfConsecutiveNumbers(
                      Ascending(WithinLimit(lines, RelativeMinima(lines, order))))
    IN  [k \in 1..Len(groups) |->
            << EndWidth - lines[groups[k][1] + 1] - 1,
               groups[k][1],
               IF groups[k][2] \div 2 >= 1 THEN groups[k][2] \div 2 ELSE 1 >>]

EndpointsIdle ==
    /\ eimage = {} /\ threshpenetration = 0 /\ ordermin = 0
    /\ eendpoints = <<>> /\ epc = "idle"

EndpointsStart ==
    /\ eimage \in SubsetsUpTo((0..(EndWidth - 1)) \X (0..(EndHeight - 1)), MaxLit)
    /\ threshpenetration \in {0, 50, 75, 100}
    /\ ordermin \in {5, 100}
    /\ eendpoints = <<>>
    /\ epc = "call"

\* ffe.py 899-949
EndpointsReturn ==
    /\ epc = "call"
    /\ eendpoints' = Endpoints(eimage)
    /\ epc' = "done"
    /\ UNCHANGED <<eimage, threshpenetration, ordermin>>
    /\ UNCHANGED exceptEndpoints

EndpointsNext == EndpointsReturn

(***************************************************************************)
(* loadDictionaryFromPng, updateDictionaryOfPng, replaceDictionaryOfPng    *)
(* and the command del of pngdata.py                                       *)
(*                                                                         *)
(* A file is the list of its chunks [type, content].  A dictionary is a    *)
(* function on its keys; its pickle is the set of its (key, value) pairs,  *)
(* which is also the form of the content of a tEXt chunk (one pair); the   *)
(* other chunks have the empty content here.  Keys are shorter than the 79 *)
(* characters a tEXt keyword is cut to.                                    *)
(***************************************************************************)
MaxCalls == 2

\* pngdata.py 73-74
acquisitionkeys ==
    {"Experiment name", "Dataline 1", "Dataline 2", "Channels recorded", "Timestamp",
     "Snapshot time", "Image counter"}

\* acquire.py 295-298: the keys of filedata
RecordedKeys ==
    {"Experiment name", "Dataline 1", "Dataline 2", "Channels recorded", "Timestamp",
     "Snapshot time", "Image counter", "Total frame counter"}

\* The order in which a dictionary hands out its keys.
KeyOrder ==
    <<"Experiment name", "Dataline 1", "Dataline 2", "Channels recorded", "Timestamp",
      "Snapshot time", "Image counter", "Total frame counter", "Comment">>

Chunk(type, content) == [type |-> type, content |-> content]

\* cPickle.dumps(data) and cPickle.loads(text)
dumps(data) == {<<k, data[k]>> : k \in DOMAIN data}

loads(text) == [k \in {p[1] : p \in text} |-> (CHOOSE p \in text : p[1] = k)[2]]

\* dict.update: old with the keys of new added or overwritten
Updated(old, new) ==
    [k \in DOMAIN old \cup DOMAIN new |-> IF k \in DOMAIN new THEN new[k] ELSE old[k]]

\* ffe.py 382-385, 418-421: the dfFe chunks update the dictionary in order
RECURSIVE LoadFrom(_, _)
LoadFrom(chunks, data) ==
    IF chunks = <<>> THEN data
    ELSE LoadFrom(Tail(chunks),
                  IF Head(chunks).type = "dfFe" THEN Updated(data, loads(Head(chunks).content))
                  ELSE data)

\* ffe.py 362-387
loadDictionaryFromPng(file) == LoadFrom(file, <<>>)

\* ffe.py 332-358: one dfFe chunk with the pickle, one tEXt chunk per key
createChunksFromDictionary(data) ==
    LET keys == SelectSeq(KeyOrder, LAMBDA k : k \in DOMAIN data)
    IN  <<Chunk("dfFe", dumps(data))>>
        \o [i \in 1..Len(keys) |-> Chunk("tEXt", {<<keys[i], data[keys[i]]>>})]

\* ffe.py 430: the chunks that are neither dfFe nor tEXt
WithoutData(chunks) == SelectSeq(chunks, LAMBDA c : c.type # "dfFe" /\ c.type # "tEXt")

\* Mutant: the dictionary already in the file is not read.
updateDictionaryOfPngWithoutOld(file, data) ==
    WithoutData(Front(file)) \o createChunksFromDictionary(data) \o <<Chunk("IEND", {})>>

\* ffe.py 391-440: the file as it is written back
updateDictionaryOfPng(file, data) ==
    WithoutData(Front(file))
        \o createChunksFromDictionary(Updated(LoadFrom(Front(file), <<>>), data))
        \o <<Chunk("IEND", {})>>

\* ffe.py 444-481: the file as it is written back
replaceDictionaryOfPng(file, replacedata) ==
    WithoutData(Front(file)) \o createChunksFromDictionary(replacedata) \o <<Chunk("IEND", {})>>

\* del ffedata[line]
Without(data, line) == [k \in DOMAIN data \ {line} |-> data[k]]

\* pngdata.py 288-303: the loop over the lines read
RECURSIVE DeletedKeys(_, _, _)
DeletedKeys(ffedata, lines, force) ==
    IF lines = <<>> THEN ffedata
    ELSE IF Head(lines) = "" THEN DeletedKeys(ffedata, Tail(lines), force)
    ELSE IF ~force /\ Head(lines) \in acquisitionkeys THEN DeletedKeys(ffedata, Tail(lines), force)
    ELSE DeletedKeys(Without(ffedata, Head(lines)), Tail(lines), force)

\* The file cv2.imwrite leaves (acquire.py 317), the snapshot acquire.py
\* makes of it (320), and a file that got two dfFe chunks by
\* addDataChunksToPng (ffe.py 293-329), with a tEXt chunk of another program.
FreshFile == <<Chunk("IHDR", {}), Chunk("IDAT", {}), Chunk("IEND", {})>>

SnapshotFile == updateDictionaryOfPng(FreshFile, [k \in RecordedKeys |-> 1])

TwoChunkFile ==
    <<Chunk("IHDR", {}), Chunk("tEXt", {<<"Software", 1>>}), Chunk("IDAT", {}),
      Chunk("dfFe", {<<"Comment", 1>>, <<"Dataline 1", 1>>}),
      Chunk("dfFe", {<<"Comment", 2>>}),
      Chunk("IEND", {})>>

\* The dictionaries passed to update and replace, the lines typed to del.
DictPool == UNION {[K -> {1, 2}] : K \in SUBSET {"Dataline 1", "Comment"}}

LinePool == SeqsUpTo({"", "Dataline 1", "Image counter", "Total frame counter", "Comment"}, 2)

PngIdle ==
    /\ chunklist = <<>> /\ updatedata = <<>> /\ dellines = <<>> /\ forcedel = FALSE
    /\ command = "idle" /\ calls = 0

PngStart ==
    /\ chunklist \in {FreshFile, SnapshotFile, TwoChunkFile}
    /\ updatedata = <<>> /\ dellines = <<>> /\ forcedel = FALSE
    /\ command = "none" /\ calls = 0

\* ffe.py 391-440
PngUpdate ==
    /\ command # "idle" /\ calls < MaxCalls
    /\ \E data \in DictPool :
          /\ chunklist' = updateDictionaryOfPng(chunklist, data)
          /\ updatedata' = data
    /\ command' = "update"
    /\ calls' = calls + 1
    /\ UNCHANGED <<dellines, forcedel>>
    /\ UNCHANGED exceptPng

\* ffe.py 444-481
PngReplace ==
    /\ command # "idle" /\ calls < MaxCalls
    /\ \E data \in DictPool :
          /\ chunklist' = replaceDictionaryOfPng(chunklist, data)
          /\ updatedata' = data
    /\ command' = "replace"
    /\ calls' = calls + 1
    /\ UNCHANGED <<dellines, forcedel>>
    /\ UNCHANGED exceptPng

\* pngdata.py 163, 284-306: the command del on the file
PngDel ==
    /\ command # "idle" /\ calls < MaxCalls
    /\ \E lines \in LinePool, force \in BOOLEAN :
          /\ chunklist' = replaceDictionaryOfPng(chunklist,
                              DeletedKeys(loadDictionaryFromPng(chunklist), lines, force))
          /\ dellines' = lines
          /\ forcedel' = force
    /\ command' = "del"
    /\ calls' = calls + 1
    /\ UNCHANGED updatedata
    /\ UNCHANGED exceptPng

PngNext == PngUpdate \/ PngReplace \/ PngDel

(***************************************************************************)
(* Specifications                                                          *)
(***************************************************************************)
CombineInit == CombineStart /\ PathIdle /\ ZoneIdle /\ TracerIdle /\
    MetricsIdle /\ QueryIdle /\ FlowIdle /\ WidthIdle /\ StoreIdle /\
    DijkstraIdle /\ MiddleIdle /\ EndpointsIdle /\ PngIdle

SpecCombine == CombineInit /\ [][CombineNext]_vars

PathInit == PathStart /\ CombineIdle /\ ZoneIdle /\ TracerIdle /\
    MetricsIdle /\ QueryIdle /\ FlowIdle /\ WidthIdle /\ StoreIdle /\
    DijkstraIdle /\ MiddleIdle /\ EndpointsIdle /\ PngIdle

SpecPath == PathInit /\ [][PathNext]_vars

ZoneInit == ZoneStart /\ CombineIdle /\ PathIdle /\ TracerIdle /\
    MetricsIdle /\ QueryIdle /\ FlowIdle /\ WidthIdle /\ StoreIdle /\
    DijkstraIdle /\ MiddleIdle /\ EndpointsIdle /\ PngIdle

SpecZone == ZoneInit /\ [][ZoneNext]_vars

TracerInit == TracerStart /\ CombineIdle /\ PathIdle /\ ZoneIdle /\
    MetricsIdle /\ QueryIdle /\ FlowIdle /\ WidthIdle /\ StoreIdle /\
    DijkstraIdle /\ MiddleIdle /\ EndpointsIdle /\ PngIdle

SpecTracer == TracerInit /\ [][TracerNext]_vars

MetricsInit == MetricsStart /\ CombineIdle /\ PathIdle /\ ZoneIdle /\
    TracerIdle /\ QueryIdle /\ FlowIdle /\ WidthIdle /\ StoreIdle /\
    DijkstraIdle /\ MiddleIdle /\ EndpointsIdle /\ PngIdle

SpecMetrics == MetricsInit /\ [][MetricsNext]_vars

QueryInit ==
    /\ QueryStart /\ CombineIdle /\ PathIdle /\ ZoneIdle /\ TracerIdle /\ MetricsIdle
    /\ FlowIdle /\ WidthIdle /\ StoreIdle /\ DijkstraIdle /\ MiddleIdle /\ EndpointsIdle /\ PngIdle

SpecQuery == QueryInit /\ [][QueryNext]_vars

FlowInit ==
    /\ FlowStart /\ CombineIdle /\ PathIdle /\ ZoneIdle /\ TracerIdle /\ MetricsIdle
    /\ QueryIdle /\ WidthIdle /\ StoreIdle /\ DijkstraIdle /\ MiddleIdle /\ EndpointsIdle /\ PngIdle

SpecFlow == FlowInit /\ [][FlowNext]_vars

WidthInit ==
    /\ WidthStart /\ CombineIdle /\ PathIdle /\ ZoneIdle /\ TracerIdle /\ MetricsIdle
    /\ QueryIdle /\ FlowIdle /\ StoreIdle /\ DijkstraIdle /\ MiddleIdle /\ EndpointsIdle /\ PngIdle

SpecWidth == WidthInit /\ [][WidthNext]_vars

StoreInit ==
    /\ StoreStart /\ StoreOptions /\ PathIdle /\ ZoneIdle /\ TracerIdle /\ MetricsIdle
    /\ QueryIdle /\ FlowIdle /\ WidthIdle /\ DijkstraIdle /\ MiddleIdle /\ EndpointsIdle /\ PngIdle

SpecStore == StoreInit /\ [][StoreNext]_vars

DijkstraInit ==
    /\ DijkstraStart /\ CombineIdle /\ ZoneIdle /\ TracerIdle /\ MetricsIdle
    /\ QueryIdle /\ FlowIdle /\ WidthIdle /\ StoreIdle /\ MiddleIdle /\ EndpointsIdle /\ PngIdle

SpecDijkstra == DijkstraInit /\ [][DijkstraNext]_vars

MiddleInit ==
    MiddleStart /\ CombineIdle /\ PathIdle /\ ZoneIdle /\ TracerIdle /\
    MetricsIdle /\ QueryIdle /\ FlowIdle /\ WidthIdle /\ StoreIdle /\
    DijkstraIdle /\ EndpointsIdle /\ PngIdle

SpecMiddle == MiddleInit /\ [][MiddleNext]_vars

EndpointsInit ==
    EndpointsStart /\ CombineIdle /\ PathIdle /\ ZoneIdle /\ TracerIdle /\
    MetricsIdle /\ QueryIdle /\ FlowIdle /\ WidthIdle /\ StoreIdle /\
    DijkstraIdle /\ MiddleIdle /\ PngIdle

SpecEndpoints == EndpointsInit /\ [][EndpointsNext]_vars

PngInit ==
    PngStart /\ CombineIdle /\ PathIdle /\ ZoneIdle /\ TracerIdle /\
    MetricsIdle /\ QueryIdle /\ FlowIdle /\ WidthIdle /\ StoreIdle /\
    DijkstraIdle /\ MiddleIdle /\ EndpointsIdle

SpecPng == PngInit /\ [][PngNext]_vars

(***************************************************************************)
(* Claims about combineTrajectories                                        *)
(***************************************************************************)
pooled == traclist1 \o traclist2

\* No two entries at different positions of the list are similar.
PairwiseDissimilar(list) ==
    \A i, j \in 1..Len(list) : i # j => ~criteria(list[i], list[j])

\* C1: when no two input trajectories (within or across the two lists) are
\* similar, the returned list is as long as both inputs together and holds
\* every input trajectory as often as the inputs do (nothing dropped).
C1_DisjointListsAreConcatenated ==
    (cpc = "done" /\ PairwiseDissimilar(pooled)) =>
        /\ Len(finallist) = Len(traclist1) + Len(traclist2)
        /\ \A t \in Range(pooled) : Count(finallist, t) = Count(pooled, t)

C1_Witness ==
    /\ cpc = "done"
    /\ PairwiseDissimilar(pooled)
    /\ Len(traclist1) >= 1
    /\ Len(traclist2) >= 2
    /\ Len(finallist) = 3
    /\ \E i, j \in 1..3 : i # j /\ Len(pooled[i]) >= 2 /\ Len(pooled[j]) >= 2

\* C2: in the returned list similar trajectories appear only once: no two
\* distinct entries of the result are similar under the chosen criterion.
C2_ResultPairwiseDissimilar ==
    cpc = "done" => PairwiseDissimilar(finallist)

\* C3: when the popped trajectory is similar to an accepted one, the accepted
\* entry it was found similar to is replaced only if the popped trajectory has
\* strictly more points; the number of accepted entries does not change and
\* no other accepted entry is modified.
C3_LongerOfTheTwoSurvives ==
    [][(/\ cpc = "loop"
        /\ Len(workinglist) > 0
        /\ \E i \in 1..Len(finallist) : criteria(Last(workinglist), finallist[i]))
       =>
       LET item == Last(workinglist)
           hit  == CHOOSE i \in 1..Len(finallist) :
                      /\ criteria(item, finallist[i])
                      /\ \A k \in 1..(i - 1) : ~criteria(item, finallist[k])
       IN  /\ Len(finallist') = Len(finallist)
           /\ finallist'[hit] = IF Len(item) > Len(finallist[hit])
                                THEN item ELSE finallist[hit]
           /\ Len(finallist'[hit]) >= Len(item)
           /\ Len(finallist'[hit]) >= Len(finallist[hit])
           /\ \A j \in 1..Len(finallist) : j # hit => finallist'[j] = finallist[j]
      ]_vars

C3_Witness ==
    /\ cevent = "replaced"
    /\ Len(finallist) >= 2

(***************************************************************************)
(* Claims about findPathOnImage                                            *)
(***************************************************************************)
AllBright == \A p \in Pixels : image[p] # 0

\* Pixels that touch, sideways or diagonally.
Adjacent(p, q) ==
    /\ p # q
    /\ Abs(p[1] - q[1]) <= 1
    /\ Abs(p[2] - q[2]) <= 1

RECURSIVE Closure(_, _)
Closure(S, nodes) ==
    LET next == S \cup {q \in nodes : \E p \in S : Adjacent(p, q)}
    IN  IF next = S THEN S ELSE Closure(next, nodes)

\* The end pixel can be reached from the start pixel through adjacent pixels
\* whose density exceeds bias (start and end being such pixels themselves).
Reachable ==
    LET passable == {p \in Pixels : densityimage[p] > bias}
    IN  /\ startpoint \in passable
        /\ endpoint \in Closure({startpoint}, passable)

\* C4 as stated: on an image whose every pixel is bright, from corner (0, 0)
\* to corner (w-1, h-1), the function returns a non-empty path whose first
\* point is (0, 0) and whose last point is (w-1, h-1).
C4_CornerToCornerPath ==
    (/\ ppc = "done"
     /\ AllBright
     /\ startpoint = <<0, 0>>
     /\ endpoint = <<ImageWidth - 1, ImageHeight - 1>>)
    => (/\ path # <<>>
        /\ path[1] = <<0, 0>>
        /\ Last(path) = <<ImageWidth - 1, ImageHeight - 1>>)

\* C4 amended: on an image whose every pixel is bright, with densityrad
\* r >= 1 and bias below the density of the pixels that carry one, the call
\* from (r, r) to (w-1-r, h-1-r) (two different pixels) returns a non-empty
\* path whose first point is the start and whose last point is the end; from
\* the image corner (0, 0), or to the image corner (w-1, h-1), it returns the
\* empty list, because pixels nearer than r to the border have density 0.
C4_InnerCornerToInnerCornerPath ==
    (ppc = "done" /\ AllBright) =>
        /\ (/\ densityrad >= 1
            /\ startpoint = <<densityrad, densityrad>>
            /\ endpoint = <<ImageWidth - 1 - densityrad, ImageHeight - 1 - densityrad>>
            /\ startpoint # endpoint
            /\ densityimage[startpoint] > bias)
           => (/\ path # <<>>
               /\ path[1] = startpoint
               /\ Last(path) = endpoint)
        /\ (startpoint = <<0, 0>> \/ endpoint = <<ImageWidth - 1, ImageHeight - 1>>)
           => path = <<>>

C4_Witness ==
    /\ ppc = "done"
    /\ AllBright
    /\ densityrad = 1
    /\ startpoint = <<1, 1>>
    /\ endpoint = <<ImageWidth - 2, ImageHeight - 2>>
    /\ Len(path) >= 2

\* C5 as stated: the empty list is returned exactly when the start or end
\* pixel has zero density or the end pixel cannot be reached from the start
\* through adjacent pixels whose density exceeds bias; in every other case
\* the path has at least 2 points.
C5_EmptyExactlyWhenUnreachable ==
    ppc = "done" =>
        /\ path = <<>> <=> (\/ densityimage[startpoint] = 0
                            \/ densityimage[endpoint] = 0
                            \/ ~Reachable)
        /\ path # <<>> => Len(path) >= 2

\* C5 amended: the empty list is returned exactly when the start or end pixel
\* has zero density, or start and end are the same pixel, or the end pixel
\* cannot be reached from the start through adjacent pixels whose density
\* exceeds bias; in every other case the path has at least 2 points.
C5_EmptyExactlyWhenUnreachableOrSamePixel ==
    ppc = "done" =>
        /\ path = <<>> <=> (\/ densityimage[startpoint] = 0
                            \/ densityimage[endpoint] = 0
                            \/ startpoint = endpoint
                            \/ ~Reachable)
        /\ path # <<>> => Len(path) >= 2

\* The search ran, found the end pixel cut off by dark pixels, and gave up.
C5_Witness ==
    /\ ppc = "done"
    /\ path = <<>>
    /\ densityimage[startpoint] > bias
    /\ densityimage[endpoint] > bias
    /\ startpoint # endpoint
    /\ ~Reachable

\* The predecessor chain the tracker holds, from the pixel before cur back
\* to the start pixel.
RECURSIVE PredChain(_)
PredChain(cur) ==
    IF tracker[cur] = -1 \/ cur = startpoint
    THEN <<>>
    ELSE LET prev == PointsAt(points, tracker[cur])
         IN  <<prev>> \o PredChain(prev)

\* C6: whenever a non-empty path is returned, its first element is the start
\* pixel, its last element is the end pixel, and the elements between are
\* the pixels of the backtracked predecessor chain taken at every
\* everyotherpoint-th step (the first step included), in chain order.
C6_PathKeepsStartEndAndEveryOtherPoint ==
    (ppc = "done" /\ path # <<>>) =>
        LET chain == PredChain(endpoint)
            kept  == {k \in 1..Len(chain) :
                        (k - 1) % everyotherpoint = 0 \/ k = Len(chain)}
            back  == Reverse(path)
        IN  /\ path[1] = startpoint
            /\ Last(path) = endpoint
            /\ Len(chain) >= 1 /\ chain[Len(chain)] = startpoint
            /\ Len(path) = 1 + Cardinality(kept)
            /\ \A k \in kept :
                  back[1 + Cardinality({j \in kept : j <= k})] = chain[k]

\* A path on which the decimation dropped a chain pixel.
C6_Witness ==
    /\ ppc = "done"
    /\ path # <<>>
    /\ everyotherpoint = 2
    /\ Len(PredChain(endpoint)) >= 3
    /\ Len(path) < 1 + Len(PredChain(endpoint))

(***************************************************************************)
(* Claims about findSeparationZoneBoundaries                               *)
(***************************************************************************)
ContourIndices == 0..(Len(contours) - 1)

\* The zone as the documentation of the function describes it: i is a
\* top-level contour of at least threshold pixels and j lies directly in it.
IsZoneCandidate(i, j) ==
    /\ At0(hierarchy, i)[4] = -1
    /\ At0(contours, i) >= threshold
    /\ At0(hierarchy, j)[4] = i

\* area(j) / area(i), not rounded, lies in [threshratio - variance,
\* threshratio + variance].
ExactRatioInRange(i, j) ==
    /\ (threshratio - variance) * At0(contours, i) <= 100 * At0(contours, j)
    /\ 100 * At0(contours, j) <= (threshratio + variance) * At0(contours, i)

\* C7: whenever the contours, with a matching hierarchy, hold a top-level
\* contour P of area >= T with a child C whose area ratio lies in
\* [R - eps, R + eps], the function returns exactly (P, C).
C7_ReturnsTheZonePair ==
    (zpc = "done" /\ Len(contours) = Len(hierarchy)) =>
        \A P \in ContourIndices : \A C \in ContourIndices :
            (IsZoneCandidate(P, C) /\ ExactRatioInRange(P, C)) => zresult = <<P, C>>

\* C8: the function returns (-1,-1) or a pair (i,j) with i top-level,
\* area(i) >= threshold, j a child of i and the rounded ratio in range; it
\* returns (-1,-1) exactly when no such pair exists or the lengths differ,
\* and never a pair with only one component -1.
C8_SentinelExactlyWhenNoPair ==
    zpc = "done" =>
        /\ \/ zresult = <<-1, -1>>
           \/ /\ zresult[1] \in ContourIndices /\ zresult[2] \in ContourIndices
              /\ IsZoneCandidate(zresult[1], zresult[2])
              /\ RatioInRange(zresult[1], zresult[2])
        /\ zresult = <<-1, -1>> <=>
              \/ Len(contours) # Len(hierarchy)
              \/ ~\E i \in ContourIndices : \E j \in ContourIndices :
                    IsZoneCandidate(i, j) /\ RatioInRange(i, j)
        /\ (zresult[1] = -1) <=> (zresult[2] = -1)


(***************************************************************************)
(* Claims about getTrajectoriesFromImage                                   *)
(***************************************************************************)
\* The positions of endpoints whose search has been closed.
ClosedEndpoints == 1..(IF ek - 1 < Len(endpoints) THEN ek - 1 ELSE Len(endpoints))

\* C9: every trajectory of the result has at least 2 points and ends with
\* the endpoint its search was seeded with; the result holds at most one
\* trajectory per endpoint, in the order of the endpoints.
C9_TrajectoriesEndAtTheirEndpoint ==
    /\ \A k \in 1..Len(trajectories) : Len(trajectories[k]) >= 2
    /\ \E seed \in [1..Len(trajectories) -> ClosedEndpoints] :
          /\ \A k \in 1..Len(trajectories) : Last(trajectories[k]) = endpoints[seed[k]]
          /\ \A k \in 1..(Len(trajectories) - 1) : seed[k] < seed[k + 1]

\* Two endpoints were searched, the first search was dropped and the second
\* one is returned.
C9_Witness ==
    /\ tpc = "done"
    /\ Len(endpoints) = 2
    /\ Len(trajectories) = 1
    /\ Last(trajectories[1]) = endpoints[2]

\* The positions of a trajectory that hold an inlet.
InletPositions(trac) == {i \in 1..Len(trac) : trac[i] \in Range(startpoints)}

\* C10: a returned trajectory holds at most one appended inlet, at its
\* first position, also when several inlets are in range of the same point.
C10_AtMostOneInletAtFront ==
    \A k \in 1..Len(trajectories) : InletPositions(trajectories[k]) \subseteq {1}

\* The points of a trajectory appended by the step loop (width 10).
TracedPoints(trac) == {i \in 1..Len(trac) : trac[i][3] = 10}

\* C11: the step loop runs at most maxiteration times for an endpoint, so a
\* returned trajectory holds at most maxiteration traced points besides the
\* endpoint and the inlets.
C11_AtMostMaxiterationSteps ==
    /\ tpc # "idle" => ti <= maxiteration
    /\ \A k \in 1..Len(trajectories) :
          Cardinality(TracedPoints(trajectories[k])) <= maxiteration

\* C12: getTrajectoriesFromImage never leaves by an exception: a clipped
\* search window or a step size not larger than 2 * densityrad ends the
\* search of the endpoint, not the call.
C12_NeverRaises == tpc # "raised"

(***************************************************************************)
(* Claims about the similarity metrics and the skin                        *)
(***************************************************************************)
\* Two overlaps <<yellow, least>> are the same float.
SameOverlap(o, p) == o[1] * p[2] = p[1] * o[2]

\* C13 as stated: calculateTrajectoriesOverlap(t, t) is 1.0 for every
\* trajectory t, and overlap(a, b) = overlap(b, a) for all a and b.
C13_SelfOverlapOneAndSymmetric ==
    mpc = "overlap" =>
        /\ tracA = tracB => SameOverlap(overlap, <<1, 1>>)
        /\ SameOverlap(overlap, calculateTrajectoriesOverlap(tracB, tracA))

\* C13 amended: calculateTrajectoriesOverlap(t, t) is 1.0 for every
\* trajectory t of at least two points (0.0 for a shorter one, which has no
\* skin), and overlap(a, b) = overlap(b, a) for all a and b.
C13_SelfOverlapOneWithSkinAndSymmetric ==
    mpc = "overlap" =>
        /\ tracA = tracB =>
              SameOverlap(overlap, IF Len(tracA) >= 2 THEN <<1, 1>> ELSE <<0, 1>>)
        /\ SameOverlap(overlap, calculateTrajectoriesOverlap(tracB, tracA))

\* A trajectory with a skin compared with itself, and found to overlap fully.
C13_Witness ==
    /\ mpc = "overlap"
    /\ tracA = tracB
    /\ Len(tracA) >= 2
    /\ overlap[1] > 0 /\ overlap[1] = overlap[2]

\* The points <<x, y>> of a trajectory.
PointSet(trac) == {<<trac[i][1], trac[i][2]>> : i \in 1..Len(trac)}

\* d (squared) is the symmetric maximum of the two directed max-of-min
\* distances between the point sets A and B.
IsSymmetricMaxOfMins(d, A, B) ==
    /\ \A p \in A : \E q \in B : SqDist(p, q) <= d
    /\ \A q \in B : \E p \in A : SqDist(p, q) <= d
    /\ \/ \E p \in A : \A q \in B : SqDist(p, q) >= d
       \/ \E q \in B : \A p \in A : SqDist(p, q) >= d

\* C14 as stated: the distance of a trajectory to itself is 0, the distance
\* is the symmetric maximum of the two directed max-of-min distances, equal
\* for (a, b) and (b, a), and 0 only if both point sets coincide.
C14_HausdorffZeroOnlyForSamePoints ==
    mpc = "hausdorff" =>
        /\ tracA = tracB => hausdorff = 0
        /\ (tracA # <<>> /\ tracB # <<>>) =>
              IsSymmetricMaxOfMins(hausdorff, PointSet(tracA), PointSet(tracB))
        /\ hausdorff = calculateTrajectoriesSqDistanceHausdorff(tracB, tracA)
        /\ hausdorff = 0 => PointSet(tracA) = PointSet(tracB)

\* C14 amended: as above, but the distance is also 0 whenever one of the two
\* trajectories is empty.
C14_HausdorffZeroOnlyForSamePointsOrEmpty ==
    mpc = "hausdorff" =>
        /\ tracA = tracB => hausdorff = 0
        /\ (tracA # <<>> /\ tracB # <<>>) =>
              IsSymmetricMaxOfMins(hausdorff, PointSet(tracA), PointSet(tracB))
        /\ hausdorff = calculateTrajectoriesSqDistanceHausdorff(tracB, tracA)
        /\ hausdorff = 0 =>
              (PointSet(tracA) = PointSet(tracB) \/ tracA = <<>> \/ tracB = <<>>)

\* Two trajectories whose directed distances differ.
C14_Witness ==
    /\ mpc = "hausdorff"
    /\ tracA # <<>> /\ tracB # <<>>
    /\ DirectedSqHausdorff(tracA, tracB) < DirectedSqHausdorff(tracB, tracA)
    /\ hausdorff = DirectedSqHausdorff(tracB, tracA)

\* The direction of the trajectory at point i: towards the next point, at
\* the last point from the one before.
DirectionAt(trac, i) ==
    IF i < Len(trac)
    THEN <<trac[i + 1][1] - trac[i][1], trac[i + 1][2] - trac[i][2]>>
    ELSE <<trac[i][1] - trac[i - 1][1], trac[i][2] - trac[i - 1][2]>>

\* cross(direction at point i, s - point i): positive on one side of the
\* trajectory, negative on the other.
SideOf(trac, i, s) ==
    DirectionAt(trac, i)[1] * (s[2] - trac[i][2]) - DirectionAt(trac, i)[2] * (s[1] - trac[i][1])

\* s is a point at half the width from point i of the trajectory, cut to
\* integers: less than width / 2 + 1 away in either coordinate.
BelongsTo(trac, i, s) ==
    /\ 2 * Abs(s[1] - trac[i][1]) < trac[i][3] + 2
    /\ 2 * Abs(s[2] - trac[i][2]) < trac[i][3] + 2

\* C15: the skin of a trajectory of n >= 2 points has exactly 2n points; the
\* first n are one side, the last n, reversed, the other side, and point i
\* of each side belongs to trajectory point i; the skin of a shorter
\* trajectory is empty, so the length is always even.
C15_SkinIsTwoSidesOfEqualLength ==
    mpc = "skin" =>
        /\ Len(skinA) % 2 = 0
        /\ Len(tracA) < 2 => skinA = <<>>
        /\ Len(tracA) >= 2 =>
              /\ Len(skinA) = 2 * Len(tracA)
              /\ \A i \in 1..Len(tracA) :
                    /\ BelongsTo(tracA, i, skinA[i])
                    /\ BelongsTo(tracA, i, skinA[2 * Len(tracA) + 1 - i])
                    /\ SideOf(tracA, i, skinA[i]) >= 0
                    /\ SideOf(tracA, i, skinA[2 * Len(tracA) + 1 - i]) <= 0

\* The skin of a trajectory of three points, with two distinct sides.
C15_Witness ==
    /\ mpc = "skin"
    /\ Len(tracA) = 3
    /\ Len(skinA) = 6
    /\ SideOf(tracA, 1, skinA[1]) > 0
    /\ SideOf(tracA, 1, skinA[6]) < 0

(***************************************************************************)
(* Claims about getResolutionOfTrajectories and getYandWofTrajectory       *)
(***************************************************************************)
XRange(trac) == {trac[i][1] : i \in 1..Len(trac)}

OutsideEitherRange ==
    \/ trajectory1 = <<>> \/ trajectory2 = <<>>
    \/ ~InsideRange(XRange(trajectory1), qx)
    \/ ~InsideRange(XRange(trajectory2), qx)

\* The fraction returned is neither negative nor a division by zero.
ResolutionIsDefined ==
    qpc = "done" => res[2] > 0 /\ res[1] >= 0

\* C16: getResolutionOfTrajectories(t1, t2, x) returns 0 if x is outside
\* the x-range of either trajectory, if both widths are 0 or if either
\* width is negative, and |y1 - y2| / (0.5 * (w1 + w2)) otherwise; it never
\* divides by zero and never returns a negative value.
C16_ResolutionReturned ==
    /\ qpc \in {"call", "first", "second", "result", "done", "yandw", "yandw raised"}
    /\ ResolutionIsDefined
    /\ qpc = "done" =>
          IF OutsideEitherRange THEN res = <<0, 1>>
          ELSE IF (yw1.w = 0 /\ yw2.w = 0) \/ yw1.w < 0 \/ yw2.w < 0 THEN res = <<0, 1>>
          ELSE res = <<2 * Abs(yw1.y - yw2.y), yw1.w + yw2.w>>

OutsideSkin(trac, at) ==
    \/ ~InsideRange(DOMAIN SkinLeft(trac), at)
    \/ ~InsideRange(DOMAIN SkinRight(trac), at)

OddSkin(trac) == Len(getSkinOfTrajectory(trac)) % 2 # 0

\* C17 as stated: getYandWofTrajectory(trajectory, x) returns (y, -1), y
\* the value of the centerline spline at x, whenever x is outside the
\* domain of the centerline spline or of either skin spline, the skin has
\* an odd number of points, or the fit of a spline emits a warning.
C17_WidthUnknownKeepsCenterline ==
    (/\ qpc = "yandw"
     /\ Len(trajectory1) >= 4
     /\ \/ ~InsideRange(XRange(trajectory1), qx)
        \/ OddSkin(trajectory1)
        \/ OutsideSkin(trajectory1, qx)
        \/ yw1.warned)
    => yw1.w = -1 /\ yw1.y \in InterpolatedValues(trajectory1, qx)

\* C17 amended: (0, -1) is returned for fewer than 4 points, for x outside
\* the x-range of the points and for a skin of odd length; (y, -1), y the
\* value of the centerline spline at x, is returned for x inside that range
\* but outside the x-range of either side of the skin, and after a warning
\* of the fit.
C17_WidthUnknownKeepsCenterlineInsideRange ==
    qpc = "yandw" =>
       IF \/ Len(trajectory1) < 4
          \/ ~InsideRange(XRange(trajectory1), qx)
          \/ OddSkin(trajectory1)
       THEN yw1 = Returned(0, -1, FALSE)
       ELSE (OutsideSkin(trajectory1, qx) \/ yw1.warned)
            => yw1.w = -1 /\ yw1.y \in InterpolatedValues(trajectory1, qx)

\* x is on the trajectory but beyond one side of its skin: the centerline
\* value comes back without a width.
C17_Witness ==
    /\ qpc = "yandw"
    /\ Len(trajectory1) >= 4
    /\ InsideRange(XRange(trajectory1), qx)
    /\ OutsideSkin(trajectory1, qx)
    /\ yw1 = Returned(TracY, -1, FALSE)

(***************************************************************************)
(* Claims about getInverseFlowDirection                                    *)
(***************************************************************************)
\* C19: getInverseFlowDirection leaves the list of its caller and the two
\* coordinate entries of it unchanged: the flow markers have the value that
\* was read from the file before, during and after the call.
C19_MarkersUnchanged == markers = flowmarkers

(***************************************************************************)
(* Claims about findWidthOfTrajectory                                      *)
(***************************************************************************)
\* C20: findWidthOfTrajectory does not modify coordinates: for a trajectory
\* of n >= 2 points the trajectory returned has exactly n points, and point
\* i of it has the x and y of point i of the argument.
C20_SamePointsReturned ==
    (wpc = "done" /\ Len(wtrajectory) >= 2) =>
       /\ Len(newtrajectory) = Len(wtrajectory)
       /\ \A i \in 1..Len(wtrajectory) :
             /\ newtrajectory[i][1] = wtrajectory[i][1]
             /\ newtrajectory[i][2] = wtrajectory[i][2]

(***************************************************************************)
(* Claims about findtrajectories.py                                        *)
(***************************************************************************)
\* C18: every trajectory stored under the key Trajectories has at least 2
\* points, whatever the tracer returned for the channels and whatever the
\* options --noendpoints and --minpoints are.
C18_StoredTrajectoriesHaveTwoPoints ==
    spc = "saved" => \A i \in 1..Len(saved) : Len(saved[i]) >= 2

(***************************************************************************)
(* Further claims about combineTrajectories                                *)
(***************************************************************************)
\* C29: at return every trajectory of the two lists is in the result or
\* similar, under the metric and threshold in use, to a trajectory of the
\* result, also after an accepted trajectory was replaced by a longer one.
C29_EveryInputIsRepresented ==
    cpc = "done" =>
       \A t \in Range(traclist1 \o traclist2) :
          \/ t \in Range(finallist)
          \/ \E f \in Range(finallist) : criteria(t, f)

(***************************************************************************)
(* Further claims about findPathOnImage                                    *)
(***************************************************************************)
Passable == Range(points)

PixelNeighbours(p, q) == IsNeighbour(<<0, p[1], p[2]>>, <<0, q[1], q[2]>>)

EnterCost(p) == maxintensity - densityimage[p]

\* The cost of the pixels entered along a sequence of pixels.
RECURSIVE PathCost(_)
PathCost(seq) ==
    IF Len(seq) <= 1 THEN 0 ELSE EnterCost(Last(seq)) + PathCost(Front(seq))

\* One round of relaxing every passable pixel.
Relax(before) ==
    [p \in Passable |->
        SetMin({before[p]} \cup {before[q] + EnterCost(p) :
                                   q \in {r \in Passable : PixelNeighbours(r, p)}})]

\* The least costs: relaxing until nothing changes, k rounds at most.
RECURSIVE Relaxed(_, _)
Relaxed(before, k) ==
    IF k = 0 \/ Relax(before) = before THEN before
    ELSE Relaxed(Relax(before), k - 1)

\* The least cost from startpoint to every passable pixel (infinite where
\* there is no path).
LeastCost ==
    Relaxed([p \in Passable |-> IF p = startpoint THEN 0 ELSE infinite], Cardinality(Passable))

\* C23: with everyotherpoint = 1 the path returned is a path of least cost:
\* consecutive points are neighbouring passable pixels, and the sum of
\* maxintensity - density over the pixels entered is not larger than that
\* of any other such path from startpoint to endpoint.
C23_ReturnedPathHasLeastCost ==
    (ppc = "done" /\ everyotherpoint = 1 /\ path # <<>>) =>
       /\ path[1] = startpoint /\ Last(path) = endpoint
       /\ \A i \in 1..Len(path) : path[i] \in Passable
       /\ \A i \in 1..(Len(path) - 1) : PixelNeighbours(path[i], path[i + 1])
       /\ PathCost(path) = LeastCost[endpoint]

\* A path that had to leave the straight line to stay on bright pixels.
C23_Witness ==
    /\ ppc = "done" /\ everyotherpoint = 1
    /\ Len(path) >= 4
    /\ PathCost(path) > 0
    /\ \E i \in 1..(Len(path) - 1) : path[i][2] # path[i + 1][2]

QueuedPixels(q) == {<<q[i][2], q[i][3]>> : i \in 1..Len(q)}

\* Every pixel has one entry at most, and the entry that the next
\* iteration pops has the least distance of all entries.
QueueIsSound ==
    ppc = "search" =>
       /\ \A i, j \in 1..Len(queue) :
             (queue[i][2] = queue[j][2] /\ queue[i][3] = queue[j][3]) => i = j
       /\ \A i \in 1..Len(queue) : queue[1][1] <= queue[i][1]

\* An iteration of the loop inserts no pixel that is not queued, and the
\* pixel it pops is gone.
QueueOnlyShrinks ==
    (ppc = "search" /\ queue # <<>>) =>
       /\ QueuedPixels(queue') \subseteq QueuedPixels(queue)
       /\ <<queue[1][2], queue[1][3]>> \notin QueuedPixels(queue')

\* C24: throughout the search loop every passable pixel has at most one
\* entry in the queue, the entry popped has the least distance of all queued
\* entries, also after entries were deleted and pushed again, and a pixel
\* that was popped is never inserted again.
C24_QueueKeepsOneLeastEntryPerPixel ==
    []QueueIsSound /\ [][QueueOnlyShrinks]_vars

\* Entries were deleted and pushed again with their new distance, and the
\* queue is in the middle of the search.
C24_Witness ==
    /\ ppc = "search"
    /\ Len(queue) >= 3
    /\ Len(queue) < Len(points) - 1
    /\ \E i \in 1..Len(queue) : 0 < queue[i][1] /\ queue[i][1] < infinite
    /\ \E i \in 1..Len(queue) : queue[i][1] = infinite

(***************************************************************************)
(* C25                                                                     *)
(***************************************************************************)
\* The trajectory begins at the inlet, or, the inlet's pixel being of zero
\* intensity, at a pixel above the bias that no other such pixel is nearer
\* than and that is at most diameter * spvariancefactor away.
BeginsAt(t, inlet) ==
    \/ t[1] = <<inlet[1], inlet[2], 10>>
    \/ /\ image[<<inlet[1], inlet[2]>>] = 0
       /\ \E p \in Pixels :
             /\ image[p] > bias
             /\ \A q \in Pixels :
                   image[q] > bias => DistanceSquared(p, inlet) <= DistanceSquared(q, inlet)
             /\ DistanceSquared(p, inlet)
                   <= (inlet[3] * spvariancefactor) * (inlet[3] * spvariancefactor)
             /\ t[1] = <<p[1], p[2], 10>>

\* C25: every trajectory of getTrajectoriesFromImageDijkstra begins at an
\* inlet of the input list or, only when that inlet's pixel has zero
\* intensity, at the nearest pixel above the bias within diameter *
\* spvariancefactor; it ends at an input endpoint; every point has the
\* placeholder width 10; and there is at most one trajectory for every
\* (endpoint, inlet) pair the loops have gone through.
C25_TrajectoriesRunFromInletToEndpoint ==
    /\ \A k \in 1..Len(dtrajectories) :
          LET t == dtrajectories[k]
          IN  /\ Len(t) >= 2
              /\ \E inlet \in Range(dstartpoints) : BeginsAt(t, inlet)
              /\ \E outlet \in Range(dendpoints) : Last(t) = <<outlet[1], outlet[2], 10>>
              /\ \A i \in 1..Len(t) : t[i][3] = 10
    /\ Len(dtrajectories) <= de * Len(dstartpoints) + ds

\* Two pairs gave a trajectory, one of them from a relocated inlet.
C25_Witness ==
    /\ dpc = "done"
    /\ Len(dtrajectories) >= 2
    /\ \E k \in 1..Len(dtrajectories) :
          \A inlet \in Range(dstartpoints) :
              dtrajectories[k][1] # <<inlet[1], inlet[2], 10>>

(***************************************************************************)
(* C27                                                                     *)
(***************************************************************************)
\* Point i of the measured list is an interior point of width 0 between two
\* points of nonzero width.
IsGap(list, i) ==
    /\ 1 < i /\ i < Len(list)
    /\ list[i][3] = 0 /\ list[i - 1][3] # 0 /\ list[i + 1][3] # 0

\* The post-pass of findWidthOfTrajectory is the step that returns.
PostPass == wpc = "loop" /\ wpc' = "done"

\* What the post-pass leaves alone: the first point, the last point and the
\* points of nonzero width; it keeps the length and the positions.
PostPassKeeps ==
    /\ Len(newtrajectory') = Len(newtrajectory)
    /\ \A i \in 1..Len(newtrajectory) :
          /\ newtrajectory'[i][1] = newtrajectory[i][1]
          /\ newtrajectory'[i][2] = newtrajectory[i][2]
          /\ (i = 1 \/ i = Len(newtrajectory) \/ newtrajectory[i][3] # 0)
                => newtrajectory'[i][3] = newtrajectory[i][3]

C30_TracedPointsAreLitPixels ==
    [][(tpc = "loop" /\ Len(trajectory') > Len(trajectory)) =>
          LET traced == trajectory'[Len(trajectory) + 1]
          IN  /\ <<traced[1], traced[2]>> \in TracerPixels
              /\ timage[<<traced[1], traced[2]>>] # 0]_vars

(***************************************************************************)
(* C28                                                                     *)
(***************************************************************************)
\* C28: findMiddleOfConsecutiveNumbers returns what its documentation
\* states: for the list [1, 1, 1, 4, 4, 4, 4, 4, 4, 4, 5, 6, 6, 6] the
\* result is [(1, 1), (6, 3), (10, 0), (12, 1)].
C28_DocstringExampleIsReturned ==
    (gpc = "done" /\ numbers = DocNumbers) => results = DocResults

(***************************************************************************)
(* C26                                                                     *)
(***************************************************************************)
\* The nonzero pixels of row y inside the penetration band.
Qualifying(y) == {p \in eimage : p[2] = y /\ p[1] >= EndWidth - Penetration}

\* C26: for every threshpenetration in [0, 1], 1.0 included, every endpoint
\* (x, y, w) of findEndpointsOfTrajectories has 0 <= x < width and lies on
\* a row with a nonzero pixel inside the penetration band.
C26_EndpointsLieOnQualifyingRows ==
    epc = "done" =>
        \A k \in 1..Len(eendpoints) :
            /\ 0 <= eendpoints[k][1] /\ eendpoints[k][1] < EndWidth
            /\ Qualifying(eendpoints[k][2]) # {}

(***************************************************************************)
(* C21                                                                     *)
(***************************************************************************)
\* The file holds exactly one dfFe chunk and ends with IEND.
WellFormed(file) ==
    /\ Len(SelectSeq(file, LAMBDA c : c.type = "dfFe")) = 1
    /\ Last(file).type = "IEND"

\* C21: after updateDictionaryOfPng(file, d), loadDictionaryFromPng(file)
\* is the dictionary loadable before the call with the keys of d added or
\* overwritten and all other keys kept; every update, replace or del leaves
\* exactly one dfFe chunk and IEND as the last chunk.
C21_UpdateAddsToTheLoadableDictionary ==
    /\ [][command' = "update" =>
             LET before == loadDictionaryFromPng(chunklist)
                 after  == loadDictionaryFromPng(chunklist')
             IN  /\ DOMAIN after = DOMAIN before \cup DOMAIN updatedata'
                 /\ \A k \in DOMAIN after :
                       after[k] = IF k \in DOMAIN updatedata' THEN updatedata'[k]
                                  ELSE before[k]]_vars
    /\ [](calls > 0 => WellFormed(chunklist))

\* The second of two calls was an update that overwrote one key of a stored
\* dictionary and kept another.
C21_Witness ==
    /\ calls = MaxCalls /\ command = "update"
    /\ DOMAIN updatedata = {"Comment"}
    /\ LET loaded == loadDictionaryFromPng(chunklist)
       IN  /\ {"Comment", "Dataline 1"} \subseteq DOMAIN loaded
           /\ loaded["Comment"] = updatedata["Comment"]
           /\ loaded["Dataline 1"] # updatedata["Comment"]

(***************************************************************************)
(* C22                                                                     *)
(***************************************************************************)
\* C22: without --forcedel, every key acquire.py records in a snapshot is
\* still in the file, with the same value, after del has processed its
\* lines.
C22_DelKeepsAcquisitionData ==
    [][(command' = "del" /\ ~forcedel') =>
          LET before == loadDictionaryFromPng(chunklist)
              after  == loadDictionaryFromPng(chunklist')
          IN  \A k \in RecordedKeys \cap DOMAIN before :
                  k \in DOMAIN after /\ after[k] = before[k]]_vars

====
